---- MODULE Spec2Model ----
(***************************************************************************)
(* Tab Box background service worker (src/unnamed/part_009): the durable   *)
(* StorageData mirror of the live Chrome session, its reconcile and        *)
(* resurrection procedures, and the event queue that serialises them.      *)
(***************************************************************************)
EXTENDS Integers, Sequences, FiniteSets, TLC

VARIABLES
  storage,    \* chrome.storage.local[STORAGE_KEY]: the StorageData document
  chrome,     \* the live session: its windows, its tab groups and their tabs
  lastOp,     \* the unit of work that ran last, with what it was given
  steps,      \* units of work and session changes so far
  mergeIn,    \* arguments of mergeStoredTabs: [chromeTabs, storedTabs]
  mergeOut,   \* <<result>> once mergeStoredTabs has run, <<>> before
  eventQueue,       \* the units of work waiting, oldest first
  processingQueue,  \* the flag a processEventQueue call holds while it loops
  running,          \* the units that have started and have not finished
  resumed,          \* processEventQueue calls back from `await eventFn()`
  finished          \* the units that have finished, in that order

queueVars == <<eventQueue, processingQueue, running, resumed, finished>>

\* `const eventQueue = []; let processingQueue = false;`
QueueIdle ==
  /\ eventQueue = <<>>
  /\ processingQueue = FALSE
  /\ running = {}
  /\ resumed = 0
  /\ finished = <<>>

\* ------------------------------------------------------------------ bounds
MaxLiveTabs == 2
MaxStoredTabs == 3

\* ---------------------------------------------------------------- helpers
NoId == -1

Range(s) == {s[i] : i \in DOMAIN s}

SeqsUpTo(S, n) == UNION {[1..k -> S] : k \in 0..n}

Distinct(s, F(_)) == \A i, j \in DOMAIN s : i # j => F(s[i]) # F(s[j])

\* `t.title || t.url || 'Untitled'`
titleOrUrl(title, url) ==
  IF title # "" THEN title ELSE IF url # "" THEN url ELSE "Untitled"

\* ------------------------------------------------------- tab history merge
mapTabsToStored(tabs) ==
  [i \in DOMAIN tabs |->
     [id |-> tabs[i].id, closed |-> FALSE,
      title |-> titleOrUrl(tabs[i].title, tabs[i].url), url |-> tabs[i].url]]

\* first pass: the ids of open stored tabs that are among the chrome tabs
processedStoredIds(chromeTabs, storedTabs) ==
  {t.id : t \in {s \in Range(storedTabs) : ~s.closed}}
    \cap {c.id : c \in Range(chromeTabs)}

\* (a second pass that emits the unmatched stored tabs newest first)
closedFromStoredReversed(chromeTabs, storedTabs) ==
  LET done == processedStoredIds(chromeTabs, storedTabs)
      rest == SelectSeq(storedTabs, LAMBDA t : t.closed \/ t.id \notin done)
  IN  [i \in DOMAIN rest |->
         [rest[Len(rest) + 1 - i] EXCEPT !.id = NoId, !.closed = TRUE]]

\* (a second pass that emits every stored tab)
closedFromStoredAll(chromeTabs, storedTabs) ==
  [i \in DOMAIN storedTabs |-> [storedTabs[i] EXCEPT !.id = NoId, !.closed = TRUE]]

\* second pass: stored tabs not updated by a chrome tab, as closed tabs
closedFromStored(chromeTabs, storedTabs) ==
  LET done == processedStoredIds(chromeTabs, storedTabs)
      rest == SelectSeq(storedTabs, LAMBDA t : t.closed \/ t.id \notin done)
  IN  [i \in DOMAIN rest |-> [rest[i] EXCEPT !.id = NoId, !.closed = TRUE]]

\* (a third pass that forgets the closed tabs it has already kept)
keepClosedTabNoSeen(tab, openUrls, closedUrls) ==
  tab.url \notin openUrls

\* third pass, the test that keeps a closed tab
keepClosedTab(tab, openUrls, closedUrls) ==
  tab.url \notin openUrls /\ tab.url \notin closedUrls

RECURSIVE dedupTabs(_, _, _)
dedupTabs(result, openUrls, closedUrls) ==
  IF result = <<>> THEN <<>>
  ELSE LET tab == Head(result) IN
       IF ~tab.closed
         THEN <<tab>> \o dedupTabs(Tail(result), openUrls, closedUrls)
       ELSE IF keepClosedTab(tab, openUrls, closedUrls)
         THEN <<tab>> \o dedupTabs(Tail(result), openUrls, closedUrls \cup {tab.url})
       ELSE dedupTabs(Tail(result), openUrls, closedUrls)

\* third pass over the open tabs followed by the closed ones
deduplicated(result) ==
  dedupTabs(result, {t.url : t \in {r \in Range(result) : ~r.closed}}, {})

mergeStoredTabs(chromeTabs, storedTabs) ==
  deduplicated(mapTabsToStored(chromeTabs) \o closedFromStored(chromeTabs, storedTabs))

\* --------------------------------------------- the merge on bounded inputs
MergeTabIds == 1..2
MergeUrls == {"a", "b", "c"}
MergeLiveTabs == [id : MergeTabIds, title : {"", "T"}, url : MergeUrls]
MergeStoredRecs ==
  [id : MergeTabIds, closed : {FALSE}, title : {"S"}, url : MergeUrls]
    \cup [id : {NoId}, closed : {TRUE}, title : {"S", "T"}, url : MergeUrls]

MergeInit ==
  /\ mergeIn \in [chromeTabs : {s \in SeqsUpTo(MergeLiveTabs, MaxLiveTabs) :
                                   Distinct(s, LAMBDA t : t.id)},
                  storedTabs : SeqsUpTo(MergeStoredRecs, MaxStoredTabs)]
  /\ mergeOut = <<>>
  /\ storage = [windows |-> <<>>]
  /\ chrome = [windows |-> {}, groups |-> <<>>]
  /\ lastOp = [op |-> "merge"]
  /\ steps = 0
  /\ QueueIdle

MergeStep ==
  /\ mergeOut = <<>>
  /\ mergeOut' = <<mergeStoredTabs(mergeIn.chromeTabs, mergeIn.storedTabs)>>
  /\ UNCHANGED <<mergeIn, storage, chrome, lastOp, steps>>
  /\ UNCHANGED queueVars

mergeVars == <<mergeIn, mergeOut>>

\* ------------------------------------------------- claims on the tab merge
MergeDone == mergeOut # <<>>
MergeResult == mergeOut[1]

\* C2: the merge result holds at most one closed TabRecord per URL, and no
\* closed TabRecord whose URL is the URL of an open TabRecord of the result.
C2_MergeDedup ==
  MergeDone =>
    \A i, j \in DOMAIN MergeResult :
      (i # j /\ MergeResult[i].closed) => MergeResult[i].url # MergeResult[j].url

\* a merge whose prior list held two closed records of one URL and a closed
\* record shadowed by a live tab
C2_Witness ==
  /\ MergeDone
  /\ \E i, j \in DOMAIN mergeIn.storedTabs :
       /\ i # j
       /\ mergeIn.storedTabs[i].closed /\ mergeIn.storedTabs[j].closed
       /\ mergeIn.storedTabs[i].url = mergeIn.storedTabs[j].url
  /\ \E i \in DOMAIN mergeIn.storedTabs, c \in Range(mergeIn.chromeTabs) :
       mergeIn.storedTabs[i].closed /\ mergeIn.storedTabs[i].url = c.url
  /\ \E r \in Range(MergeResult) : r.closed

\* the closed records closedPart are prior records, cleared and closed, in the
\* relative order of the prior list
InPriorOrder(closedPart, prior) ==
  \E f \in [DOMAIN closedPart -> DOMAIN prior] :
    /\ \A i, j \in DOMAIN closedPart : i < j => f[i] < f[j]
    /\ \A i \in DOMAIN closedPart :
         closedPart[i] = [prior[f[i]] EXCEPT !.id = NoId, !.closed = TRUE]

OpenThenClosed(titleOf(_)) ==
  LET live == mergeIn.chromeTabs
      n == Len(live)
  IN  /\ Len(MergeResult) >= n
      /\ \A i \in 1..n :
           MergeResult[i] = [id |-> live[i].id, closed |-> FALSE,
                             title |-> titleOf(live[i]), url |-> live[i].url]
      /\ \A i \in (n + 1)..Len(MergeResult) : MergeResult[i].closed
      /\ InPriorOrder(SubSeq(MergeResult, n + 1, Len(MergeResult)),
                      mergeIn.storedTabs)

\* C3 as stated: one open TabRecord per live tab carrying the tab's id, title
\* and url, in live order, then the surviving closed records in prior order.
C3_MergeShapeAsStated ==
  MergeDone => OpenThenClosed(LAMBDA t : t.title)

\* C3 amended: the open TabRecord carries the live tab's id and url and its
\* title, or its url when the title is empty ("Untitled" when both are).
C3_MergeShape ==
  MergeDone =>
    OpenThenClosed(LAMBDA t : IF t.title # "" THEN t.title
                              ELSE IF t.url # "" THEN t.url ELSE "Untitled")

\* a merge of two live tabs, one untitled, that kept two closed records
C3_Witness ==
  /\ MergeDone
  /\ Len(mergeIn.chromeTabs) = 2
  /\ \E c \in Range(mergeIn.chromeTabs) : c.title = ""
  /\ Cardinality({i \in DOMAIN MergeResult : MergeResult[i].closed}) = 2
  /\ Len(MergeResult) < Len(mergeIn.chromeTabs) + Len(mergeIn.storedTabs)


\* ------------------------------------------------------- the StorageData
\* JS objects keyed by ids: `for (k in obj)` visits integer keys ascending
NullId == 0        \* `null` where an id is expected

SetKey(f, k, v) == [x \in DOMAIN f \cup {k} |-> IF x = k THEN v ELSE f[x]]
DelKey(f, k) == [x \in DOMAIN f \ {k} |-> f[x]]

Min(S) == CHOOSE x \in S : \A y \in S : x <= y

RECURSIVE SortedSeq(_)
SortedSeq(S) == IF S = {} THEN <<>> ELSE <<Min(S)>> \o SortedSeq(S \ {Min(S)})

\* 0-based index of the first element of s satisfying Test, or -1 (findIndex)
FindIndex(s, Test(_)) ==
  IF \E i \in DOMAIN s : Test(s[i])
    THEN Min({i \in DOMAIN s : Test(s[i])}) - 1
    ELSE -1

RemoveAt(s, i) == SubSeq(s, 1, i - 1) \o SubSeq(s, i + 1, Len(s))

\* every <<window key, group key>> of the document
GroupSlots(data) ==
  UNION {{<<w, g>> : g \in DOMAIN data.windows[w].groups} : w \in DOMAIN data.windows}

\* the first slot in `for wId in windows / for gKey in groups` order
FirstSlot(S) ==
  CHOOSE s \in S : \A t \in S : s[1] < t[1] \/ (s[1] = t[1] /\ s[2] <= t[2])

NotFound == [found |-> FALSE]
FoundAt(slot) == [found |-> TRUE, windowId |-> slot[1], groupKey |-> slot[2]]
FirstOf(hits) == IF hits = {} THEN NotFound ELSE FoundAt(FirstSlot(hits))

GroupAt(data, stored) == data.windows[stored.windowId].groups[stored.groupKey]

SlotsWithId(data, groupId) ==
  {s \in GroupSlots(data) : data.windows[s[1]].groups[s[2]].id = groupId}

findStoredGroupById(data, groupId) ==
  IF groupId = NullId THEN NotFound ELSE FirstOf(SlotsWithId(data, groupId))

\* the match in the preferred window, else the first match of any window
preferredOf(hits, preferredWindowId) ==
  IF preferredWindowId # NullId /\ \E s \in hits : s[1] = preferredWindowId
    THEN FirstOf({s \in hits : s[1] = preferredWindowId})
    ELSE FirstOf(hits)

findStoredGroupByTitle(data, title, preferredWindowId) ==
  preferredOf({s \in GroupSlots(data) : data.windows[s[1]].groups[s[2]].title = title},
              preferredWindowId)

\* chrome.tabGroups.query({windowId}) and chrome.tabGroups.get(groupId)
groupsInWindow(session, windowId) ==
  SelectSeq(session.groups, LAMBDA g : g.windowId = windowId)

IsLiveGroup(session, groupId) == \E g \in Range(session.groups) : g.id = groupId
LiveGroup(session, groupId) ==
  CHOOSE g \in Range(session.groups) : g.id = groupId

\* the score of one stored window: the chrome titles its groups carry
titleMatches(chromeGroupTitles, storedWindow) ==
  Len(SelectSeq(chromeGroupTitles,
                LAMBDA t : t \in {storedWindow.groups[k].title :
                                    k \in DOMAIN storedWindow.groups} \ {""}))

\* `matches > 0 && (!bestMatch || matches > bestMatch.score)`
betterMatch(matches, best) ==
  matches > 0 /\ (best.index = -1 \/ matches > best.score)

\* the loop over unsyncedWindows: best is [index, score], index -1 for none
RECURSIVE bestMatchFrom(_, _, _, _)
bestMatchFrom(unsynced, i, chromeGroupTitles, best) ==
  IF i > Len(unsynced) THEN best
  ELSE bestMatchFrom(unsynced, i + 1, chromeGroupTitles,
         IF betterMatch(titleMatches(chromeGroupTitles, unsynced[i].window), best)
           THEN [index |-> i - 1,
                 score |-> titleMatches(chromeGroupTitles, unsynced[i].window)]
           ELSE best)

\* (every stored window, attached to a chrome window or not)
storedWindows(data, session) ==
  [i \in 1..Cardinality(DOMAIN data.windows) |->
     [key |-> SortedSeq(DOMAIN data.windows)[i],
      window |-> data.windows[SortedSeq(DOMAIN data.windows)[i]]]]

\* The stored windows not attached to a chrome window, in Object.values
\* order, each with the key it is stored under.
unsyncedWindows(data, session) ==
  SelectSeq([i \in 1..Cardinality(DOMAIN data.windows) |->
               [key |-> SortedSeq(DOMAIN data.windows)[i],
                window |-> data.windows[SortedSeq(DOMAIN data.windows)[i]]]],
            LAMBDA e : e.window.id \notin session.windows)

\* `for (const wId in unsyncedWindows)` runs over the indices of the array:
\* storedWindowId is the position of the match in the array
matchStoredWindowId(index, unsynced) == index

matchOf(best, unsynced) ==
  IF best.index = -1 THEN NotFound
  ELSE [found |-> TRUE,
        window |-> unsynced[best.index + 1],
        storedWindowId |-> matchStoredWindowId(best.index, unsynced)]

bestMatchOf(unsynced, chromeGroupTitles) ==
  IF chromeGroupTitles = <<>> THEN NotFound
  ELSE matchOf(bestMatchFrom(unsynced, 1, chromeGroupTitles, [index |-> -1, score |-> 0]),
               unsynced)

chromeTitlesIn(chromeGroups) ==
  SelectSeq([i \in DOMAIN chromeGroups |-> chromeGroups[i].title], LAMBDA t : t # "")

\* [found, window (with the key it is stored under), storedWindowId]
findStoredWindowByGroups(data, session, chromeWindowId) ==
  bestMatchOf(unsyncedWindows(data, session),
              chromeTitlesIn(groupsInWindow(session, chromeWindowId)))

\* what a unit of work leaves: the document as last written, and whether it threw
Done(data) == [data |-> data, threw |-> FALSE]
Threw(data) == [data |-> data, threw |-> TRUE]
Then(out, next(_)) == IF out.threw THEN out ELSE next(out.data)

setWindowIds(groups, windowId) ==
  [k \in DOMAIN groups |-> [groups[k] EXCEPT !.windowId = windowId]]

\* the groups object is shared by the new entry and the matched window, when
\* that one is still in the document; a throw leaves no write
shareGroups(data, moved, windowId, heldUnder, groups) ==
  IF windowId \notin DOMAIN moved
    THEN Threw(data)   \* data.windows[windowId] is undefined
    ELSE Done([windows |->
           [k \in DOMAIN moved |->
              IF k = windowId \/ k = heldUnder
                THEN [moved[k] EXCEPT !.groups = groups]
                ELSE moved[k]]])

\* the match is rekeyed to the chrome window id
rebindMatch(data, windowId, match) ==
  shareGroups(data,
    DelKey(SetKey(data.windows, windowId,
                  [match.window.window EXCEPT !.id = windowId, !.closed = FALSE]),
           match.storedWindowId),
    windowId, match.window.key,
    setWindowIds(match.window.window.groups, windowId))

\* (a new entry that takes the place of the closed windows)
bindWindowOverClosed(data, windowId, match) ==
  IF match.found
    THEN rebindMatch(data, windowId, match)
    ELSE Done([data EXCEPT !.windows =
                 SetKey([k \in {x \in DOMAIN data.windows : ~data.windows[x].closed} |->
                           data.windows[k]],
                        windowId, [id |-> windowId, closed |-> FALSE, groups |-> <<>>])])

bindWindow(data, windowId, match) ==
  IF match.found
    THEN rebindMatch(data, windowId, match)
    ELSE Done([data EXCEPT !.windows =
                 SetKey(@, windowId, [id |-> windowId, closed |-> FALSE, groups |-> <<>>])])

syncWindow(data, session, windowId) ==
  IF windowId \in DOMAIN data.windows
    THEN Done([data EXCEPT !.windows[windowId].closed = FALSE])
    ELSE bindWindow(data, windowId, findStoredWindowByGroups(data, session, windowId))

moveStoredGroupToWindow(data, fromWindowId, groupKey, toWindowId) ==
  IF fromWindowId \notin DOMAIN data.windows \/ toWindowId \notin DOMAIN data.windows
    THEN data
  ELSE IF groupKey \notin DOMAIN data.windows[fromWindowId].groups THEN data
  ELSE [data EXCEPT
          !.windows[toWindowId].groups =
             SetKey(@, groupKey, data.windows[fromWindowId].groups[groupKey]),
          !.windows[fromWindowId].groups = DelKey(@, groupKey)]

\* positions of the open groups of the window, after a create or a move
RECURSIVE updatePositionsIn(_, _, _)
updatePositionsIn(winGroups, chromeGroupsInWindow, i) ==
  IF i > Len(chromeGroupsInWindow) THEN winGroups
  ELSE updatePositionsIn(
         IF \E k \in DOMAIN winGroups : winGroups[k].id = chromeGroupsInWindow[i].id
           THEN [winGroups EXCEPT
                   ![Min({k \in DOMAIN winGroups :
                            winGroups[k].id = chromeGroupsInWindow[i].id})].position =
                      FindIndex(chromeGroupsInWindow,
                                LAMBDA g : g.id = chromeGroupsInWindow[i].id)]
           ELSE winGroups,
         chromeGroupsInWindow, i + 1)

\* the record a chrome group is bound to: by id, else by title
resolveStoredGroup(data, groupId, title, windowId) ==
  IF SlotsWithId(data, groupId) # {}
    THEN findStoredGroupById(data, groupId)
    ELSE findStoredGroupByTitle(data, title, windowId)

\* the write-back of syncTabGroup: update in place and move, or insert
storeGroup(data, stored, groupData, windowId) ==
  IF stored.found
    THEN IF stored.windowId # windowId
           THEN moveStoredGroupToWindow(
                  [data EXCEPT !.windows[stored.windowId].groups[stored.groupKey] = groupData],
                  stored.windowId, stored.groupKey, windowId)
           ELSE [data EXCEPT !.windows[stored.windowId].groups[stored.groupKey] = groupData]
    ELSE [data EXCEPT !.windows[windowId].groups = SetKey(@, groupData.id, groupData)]

positionOf(indexInWindow, data, stored) ==
  IF indexInWindow >= 0 THEN indexInWindow
  ELSE IF stored.found THEN GroupAt(data, stored).position
  ELSE 0

groupDataOf(data, stored, group, windowId, chromeGroupsInWindow) ==
  [id |-> group.id, closed |-> FALSE, title |-> group.title,
   color |-> group.color, windowId |-> windowId,
   collapsed |-> group.collapsed,
   position |-> positionOf(FindIndex(chromeGroupsInWindow, LAMBDA g : g.id = group.id),
                           data, stored),
   tabs |-> IF stored.found
              THEN mergeStoredTabs(group.tabs, GroupAt(data, stored).tabs)
              ELSE mapTabsToStored(group.tabs)]

\* (a write-back that leaves the other groups of the window alone)
positionedSelfOnly(written, updatePositions, windowId, chromeGroupsInWindow) == written

positioned(written, updatePositions, windowId, chromeGroupsInWindow) ==
  IF updatePositions
    THEN [written EXCEPT !.windows[windowId].groups =
            updatePositionsIn(@, chromeGroupsInWindow, 1)]
    ELSE written

writeStoredGroup(data, stored, group, windowId, updatePositions, chromeGroupsInWindow) ==
  positioned(storeGroup(data, stored,
                        groupDataOf(data, stored, group, windowId, chromeGroupsInWindow),
                        windowId),
             updatePositions, windowId, chromeGroupsInWindow)

\* syncTabGroup once data.windows[windowId] exists
writeTabGroup(data, session, groupId, windowId, updatePositions) ==
  writeStoredGroup(data,
    resolveStoredGroup(data, groupId, LiveGroup(session, groupId).title, windowId),
    LiveGroup(session, groupId), windowId, updatePositions,
    groupsInWindow(session, windowId))

\* `stored.windowId = -1` is assigned first, so the delete addresses
\* data.windows[-1]: the window the record is held by is not looked at
stripStoredGroup(data, stored) ==
  IF stored.found /\ NoId \in DOMAIN data.windows
    THEN [data EXCEPT !.windows[NoId].groups = DelKey(@, stored.groupKey)]
    ELSE data

\* (a return that drops the records of the group that is gone)
groupGoneDropped(data, groupId) ==
  Done([data EXCEPT !.windows =
          [w \in DOMAIN data.windows |->
             [data.windows[w] EXCEPT !.groups =
                [k \in {x \in DOMAIN data.windows[w].groups :
                          data.windows[w].groups[x].id # groupId} |->
                   data.windows[w].groups[k]]]]])

\* `if (!group) return;`
groupGone(data, groupId) == Done(data)

RECURSIVE syncTabGroup(_, _, _, _, _)
syncTabGroup(data, session, groupId, windowId, updatePositions) ==
  IF ~IsLiveGroup(session, groupId) THEN groupGone(data, groupId)
  ELSE IF windowId = NullId
    THEN Done(stripStoredGroup(data, findStoredGroupById(data, groupId)))
  ELSE IF windowId \notin DOMAIN data.windows
    THEN Then(syncWindow(data, session, windowId),
              LAMBDA d : syncTabGroup(d, session, groupId, windowId, updatePositions))
  ELSE Done(writeTabGroup(data, session, groupId, windowId, updatePositions))

\* (a group sync that runs window sync and returns without a retry)
syncTabGroupRunOnce(data, session, groupId, windowId) ==
  IF ~IsLiveGroup(session, groupId) THEN [calls |-> 1, writes |-> 0]
  ELSE IF windowId = NullId
    THEN [calls |-> 1,
          writes |-> IF findStoredGroupById(data, groupId).found THEN 1 ELSE 0]
  ELSE IF windowId \notin DOMAIN data.windows
    THEN [calls |-> 1,
          writes |-> IF syncWindow(data, session, windowId).threw THEN 0 ELSE 1]
  ELSE [calls |-> 1, writes |-> 1]

\* the calls of syncTabGroup that one call makes, itself included, and the
\* setStorage calls they and syncWindow reach
RECURSIVE syncTabGroupRun(_, _, _, _)
syncTabGroupRun(data, session, groupId, windowId) ==
  IF ~IsLiveGroup(session, groupId) THEN [calls |-> 1, writes |-> 0]
  ELSE IF windowId = NullId
    THEN [calls |-> 1,
          writes |-> IF findStoredGroupById(data, groupId).found THEN 1 ELSE 0]
  ELSE IF windowId \notin DOMAIN data.windows
    THEN IF syncWindow(data, session, windowId).threw
           THEN [calls |-> 1, writes |-> 0]
           ELSE [calls |-> 1 + syncTabGroupRun(syncWindow(data, session, windowId).data,
                                               session, groupId, windowId).calls,
                 writes |-> 1 + syncTabGroupRun(syncWindow(data, session, windowId).data,
                                                session, groupId, windowId).writes]
  ELSE [calls |-> 1, writes |-> 1]

\* ---------------------------------------------------------- full reconcile
RECURSIVE syncWindows(_, _, _)
syncWindows(data, session, windowIds) ==
  IF windowIds = <<>> THEN Done(data)
  ELSE Then(syncWindow(data, session, Head(windowIds)),
            LAMBDA d : syncWindows(d, session, Tail(windowIds)))

RECURSIVE syncTabGroups(_, _, _)
syncTabGroups(data, session, groups) ==
  IF groups = <<>> THEN Done(data)
  ELSE Then(syncTabGroup(data, session, Head(groups).id, Head(groups).windowId, TRUE),
            LAMBDA d : syncTabGroups(d, session, Tail(groups)))

closeGroups(groups) == [k \in DOMAIN groups |-> [groups[k] EXCEPT !.closed = TRUE]]

\* (a sweep that closes every open window without probing it)
markClosedUnprobed(w, session) ==
  IF w.closed THEN w
  ELSE [w EXCEPT !.closed = TRUE, !.groups = closeGroups(w.groups)]

\* mark closed what chrome.windows.get / chrome.tabGroups.get no longer find
markClosed(w, session) ==
  IF w.closed THEN w
  ELSE IF w.id \in session.windows
    THEN [w EXCEPT !.groups =
            [k \in DOMAIN w.groups |->
               IF ~w.groups[k].closed /\ ~IsLiveGroup(session, w.groups[k].id)
                 THEN [w.groups[k] EXCEPT !.closed = TRUE]
                 ELSE w.groups[k]]]
    ELSE [w EXCEPT !.closed = TRUE, !.groups = closeGroups(w.groups)]

\* cleanup of empty windows: the windows that stay
keptWindows(windows) == {k \in DOMAIN windows : DOMAIN windows[k].groups # {}}

prune(windows) == [windows |-> [k \in keptWindows(windows) |-> windows[k]]]

sweepAndPrune(data, session) ==
  prune([k \in DOMAIN data.windows |-> markClosed(data.windows[k], session)])

reconcileAllWindows(data, session) ==
  Then(syncWindows(data, session, SortedSeq(session.windows)),
       LAMBDA d1 : Then(syncTabGroups(d1, session, session.groups),
                        LAMBDA d2 : Done(sweepAndPrune(d2, session))))

\* ------------------------------------------------- session event handlers
updateGroupEntry(data, groupId, update(_)) ==
  IF SlotsWithId(data, groupId) = {} THEN data
  ELSE [data EXCEPT !.windows[FirstSlot(SlotsWithId(data, groupId))[1]]
                       .groups[FirstSlot(SlotsWithId(data, groupId))[2]] = update(@)]

\* tabGroups.onRemoved
onGroupRemoved(data, groupId) ==
  Done(updateGroupEntry(data, groupId, LAMBDA g : [g EXCEPT !.closed = TRUE]))

\* (a handler that closes the WindowRecord and leaves its groups)
onWindowRemovedOnly(data, windowId) ==
  IF windowId \in DOMAIN data.windows
    THEN Done([data EXCEPT !.windows[windowId].closed = TRUE])
    ELSE Done(data)

\* windows.onRemoved
onWindowRemoved(data, windowId) ==
  IF windowId \in DOMAIN data.windows
    THEN Done([data EXCEPT !.windows[windowId].closed = TRUE,
                           !.windows[windowId].groups = closeGroups(@)])
    ELSE Done(data)

findStoredGroupByTabId(data, tabId) ==
  FirstOf({s \in GroupSlots(data) :
             \E t \in Range(data.windows[s[1]].groups[s[2]].tabs) : t.id = tabId})

syncFoundGroup(data, session, found, windowId) ==
  IF found.found /\ GroupAt(data, found).id # NullId
    THEN syncTabGroup(data, session, GroupAt(data, found).id, windowId, FALSE)
    ELSE Done(data)

\* tabs.onRemoved
onTabRemoved(data, session, tabId, windowId) ==
  syncFoundGroup(data, session, findStoredGroupByTabId(data, tabId), windowId)

\* one queued unit of work
runUnit(data, session, u) ==
  CASE u.type = "tabRemoved" -> onTabRemoved(data, session, u.tabId, u.windowId)
    [] u.type = "groupRemoved" -> onGroupRemoved(data, u.groupId)
    [] u.type = "windowRemoved" -> onWindowRemoved(data, u.windowId)
    [] u.type = "syncTabGroup" ->
         syncTabGroup(data, session, u.groupId, u.windowId, u.updatePositions)

\* units of work run one after the other; a unit that throws is logged
RECURSIVE runUnits(_, _, _)
runUnits(data, session, units) ==
  IF units = <<>> THEN data
  ELSE runUnits(runUnit(data, session, Head(units)).data, session, Tail(units))

tabRemovedUnit(tabId, windowId) ==
  [type |-> "tabRemoved", tabId |-> tabId, windowId |-> windowId]
groupRemovedUnit(groupId) == [type |-> "groupRemoved", groupId |-> groupId]
windowRemovedUnit(windowId) == [type |-> "windowRemoved", windowId |-> windowId]
syncUnit(groupId, windowId, updatePositions) ==
  [type |-> "syncTabGroup", groupId |-> groupId, windowId |-> windowId,
   updatePositions |-> updatePositions]

\* ----------------------------------------------------- resurrection engine
\* What a focusOrOpen* call leaves: the document as last written, the
\* session, the id it returns, and whether it threw.
Opened(data, session, id) == [data |-> data, session |-> session, id |-> id, threw |-> FALSE]

IsLiveTab(session, tabId) ==
  \E g \in Range(session.groups) : \E t \in Range(g.tabs) : t.id = tabId

\* the title a tab shows once it has loaded a url
pageTitle(url) == IF url = "a" THEN "Page A" ELSE ""

\* chrome.windows.create: the session hands out the next window id
createWindow(session) ==
  [session EXCEPT !.windows = @ \cup {session.nextWindowId},
                  !.nextWindowId = @ + 1]

\* chrome.tabs.create in a row: the ids the new tabs take
createdTabIds(session, urls) == [i \in DOMAIN urls |-> session.nextTabId + i - 1]

\* chrome.tabs.create for each url, then chrome.tabs.group and
\* chrome.tabGroups.update: a new group of new tabs in the window
createGroupOfTabs(session, windowId, urls, title, color) ==
  [session EXCEPT
     !.groups = Append(@, [id |-> session.nextGroupId, windowId |-> windowId,
                           title |-> title, color |-> color, collapsed |-> FALSE,
                           tabs |-> [i \in DOMAIN urls |->
                                       [id |-> session.nextTabId + i - 1,
                                        title |-> pageTitle(urls[i]),
                                        url |-> urls[i]]]]),
     !.nextGroupId = @ + 1,
     !.nextTabId = @ + Len(urls)]

\* (an empty group made without the throwaway tab)
createEmptyGroupOfNothing(session) ==
  [session EXCEPT !.nextGroupId = @ + 1]

\* a throwaway tab is created, grouped and removed: chrome drops a group
\* with its last tab, so only the ids are used up
createEmptyGroup(session) ==
  [session EXCEPT !.nextGroupId = @ + 1, !.nextTabId = @ + 1]

\* rekeying the window entry to the new window id
rekeyWindow(windows, oldId, newId, storedWindow) ==
  IF oldId # newId
    THEN DelKey(SetKey(windows, newId, storedWindow), oldId)
    ELSE SetKey(windows, oldId, storedWindow)

\* (a rebinding that leaves the window entry under its old key)
rebindWindowInPlace(data, oldId, newId) ==
  IF oldId \notin DOMAIN data.windows THEN data
  ELSE [data EXCEPT !.windows[oldId] =
          [@ EXCEPT !.id = newId, !.closed = FALSE, !.groups = setWindowIds(@, newId)]]

rebindWindow(data, oldId, newId) ==
  IF oldId \notin DOMAIN data.windows THEN data
  ELSE [windows |->
          rekeyWindow(data.windows, oldId, newId,
                      [data.windows[oldId] EXCEPT !.id = newId, !.closed = FALSE,
                                                  !.groups = setWindowIds(@, newId)])]

\* the TabRecords of a resurrected group: created tabs take their new ids
RECURSIVE rebindTabs(_, _, _)
rebindTabs(tabs, created, createdIdx) ==
  IF tabs = <<>> THEN <<>>
  ELSE IF ~Head(tabs).closed /\ createdIdx < Len(created)
    THEN <<[Head(tabs) EXCEPT !.id = created[createdIdx + 1]]>>
           \o rebindTabs(Tail(tabs), created, createdIdx + 1)
    ELSE <<[Head(tabs) EXCEPT !.id = NoId, !.closed = TRUE]>>
           \o rebindTabs(Tail(tabs), created, createdIdx)

\* `findStoredGroupById(data, group.id) || findStoredGroupByTitle(data, group.title)`
storedGroupOf(data, group) ==
  IF group.id # NullId /\ SlotsWithId(data, group.id) # {}
    THEN findStoredGroupById(data, group.id)
    ELSE findStoredGroupByTitle(data, group.title, NullId)

\* the record moves to the window and to the key of its new id
rekeyGroup(assigned, stored, rebound, newGroupId, windowId) ==
  IF stored.windowId # windowId
    THEN IF windowId \in DOMAIN assigned.windows
           THEN [moveStoredGroupToWindow(assigned, stored.windowId, stored.groupKey, windowId)
                   EXCEPT !.windows[windowId].groups =
                            DelKey(SetKey(@, newGroupId, rebound), stored.groupKey)]
           ELSE assigned
    ELSE IF stored.groupKey # newGroupId
      THEN [assigned EXCEPT !.windows[windowId].groups =
              DelKey(SetKey(@, newGroupId, rebound), stored.groupKey)]
      ELSE assigned

reboundGroup(data, stored, rebound, newGroupId, windowId) ==
  rekeyGroup([data EXCEPT !.windows[stored.windowId].groups[stored.groupKey] = rebound],
             stored, rebound, newGroupId, windowId)

rebindStored(data, stored, group, newGroupId, windowId, created) ==
  IF ~stored.found THEN data
  ELSE reboundGroup(data, stored,
                    [GroupAt(data, stored) EXCEPT
                       !.id = newGroupId, !.windowId = windowId,
                       !.tabs = rebindTabs(group.tabs, created, 0)],
                    newGroupId, windowId)

\* the stored group takes the new group id, window and key
rebindGroup(data, group, newGroupId, windowId, created) ==
  rebindStored(data, storedGroupOf(data, group), group, newGroupId, windowId, created)

\* focusOrOpenWindow up to `chrome.windows.update(newId, {focused: true})`
openWindowOnly(data, session, window) ==
  IF window.id # NullId /\ window.id \in session.windows
    THEN Opened(data, session, window.id)
    ELSE Opened(rebindWindow(data, window.id, session.nextWindowId),
                createWindow(session), session.nextWindowId)

\* (every TabRecord's url, the closed ones too)
tabsToCreateClosedToo(group) == [i \in DOMAIN group.tabs |-> group.tabs[i].url]

\* `group.tabs.filter(t => !t.closed)`: the urls of the tabs to create
tabsToCreate(group) ==
  [i \in DOMAIN SelectSeq(group.tabs, LAMBDA t : ~t.closed) |->
     SelectSeq(group.tabs, LAMBDA t : ~t.closed)[i].url]

\* the group is created in the window, then the stored group is rebound
createGroupIn(win, group, urls) ==
  Opened(rebindGroup(win.data, group, win.session.nextGroupId, win.id,
                     createdTabIds(win.session, urls)),
         IF Len(urls) > 0
           THEN createGroupOfTabs(win.session, win.id, urls, group.title, group.color)
           ELSE createEmptyGroup(win.session),
         win.session.nextGroupId)

\* (a resurrection that does not look for the live group first)
focusOrOpenGroupAnew(data, session, group, window) ==
  createGroupIn(openWindowOnly(data, session, window), group, tabsToCreate(group))

focusOrOpenGroup(data, session, group, window) ==
  IF group.id # NullId /\ IsLiveGroup(session, group.id)
    THEN Opened(data, session, group.id)
    ELSE createGroupIn(openWindowOnly(data, session, window), group, tabsToCreate(group))

returning(out, id) == [out EXCEPT !.id = id]

\* `if (restoreTabs)`: the first group of the window entry is restored
restoreFirstGroup(win, restoreTabs) ==
  IF ~restoreTabs \/ win.id \notin DOMAIN win.data.windows THEN win
  ELSE IF DOMAIN win.data.windows[win.id].groups = {} THEN win
  ELSE returning(
         focusOrOpenGroup(win.data, win.session,
           win.data.windows[win.id].groups[Min(DOMAIN win.data.windows[win.id].groups)],
           win.data.windows[win.id]),
         win.id)

focusOrOpenWindow(data, session, window, restoreTabs) ==
  IF window.id # NullId /\ window.id \in session.windows
    THEN Opened(data, session, window.id)
    ELSE restoreFirstGroup(openWindowOnly(data, session, window), restoreTabs)

\* the stored tab of that url takes the id of the new tab, or the tab is added
tabRebound(tabs, tab, newTab) ==
  IF \E i \in DOMAIN tabs : tabs[i].url = tab.url
    THEN [tabs EXCEPT ![Min({i \in DOMAIN tabs : tabs[i].url = tab.url})] =
            [@ EXCEPT !.id = newTab.id, !.closed = FALSE,
                      !.title = titleOrUrl(newTab.title, newTab.url)]]
    ELSE Append(tabs, [id |-> newTab.id, closed |-> FALSE,
                       title |-> titleOrUrl(newTab.title, newTab.url),
                       url |-> newTab.url])

rebindTabIn(data, stored, tab, newTab) ==
  IF ~stored.found THEN data
  ELSE [data EXCEPT !.windows[stored.windowId].groups[stored.groupKey].tabs =
          tabRebound(@, tab, newTab)]

rebindTab(data, groupId, tab, newTab) ==
  rebindTabIn(data, findStoredGroupById(data, groupId), tab, newTab)

\* chrome.tabs.create and chrome.tabs.group({tabIds, groupId})
tabAdded(session, groupId, newTab) ==
  [session EXCEPT
     !.groups[FindIndex(session.groups, LAMBDA g : g.id = groupId) + 1].tabs =
        Append(@, newTab),
     !.nextTabId = @ + 1]

newTabOf(session, url) == [id |-> session.nextTabId, title |-> pageTitle(url), url |-> url]

tabInGroup(grp, tab, existingTabs) ==
  IF existingTabs # <<>>
    THEN Opened(grp.data, grp.session, existingTabs[1].id)
    ELSE Opened(rebindTab(grp.data, grp.id, tab, newTabOf(grp.session, tab.url)),
                tabAdded(grp.session, grp.id, newTabOf(grp.session, tab.url)),
                grp.session.nextTabId)

openTabIn(grp, tab) ==
  IF ~IsLiveGroup(grp.session, grp.id)
    \* chrome.tabGroups.get(groupId) rejects
    THEN [grp EXCEPT !.threw = TRUE]
    ELSE tabInGroup(grp, tab,
                    SelectSeq(LiveGroup(grp.session, grp.id).tabs, LAMBDA t : t.url = tab.url))

focusOrOpenTab(data, session, tab, group, window) ==
  IF tab.id # NullId /\ IsLiveTab(session, tab.id)
    THEN Opened(data, session, tab.id)
    ELSE openTabIn(focusOrOpenGroup(data, session, group, window), tab)

\* ------------------------------------------------------ the live session
MaxSteps == 5
MaxTabsPerGroup == 2

WindowIds == 1..3
GroupIds == 1..3
TabIds == 1..4
GroupTitles == {"", "A", "B"}
Urls == {"a", "b"}
GroupColor == "grey"

\* a browser session that starts with one window and no tab group; the ids
\* of a session are handed out in increasing order
NewSession(w) ==
  [windows |-> {w}, groups |-> <<>>, nextWindowId |-> w + 1,
   nextGroupId |-> 1, nextTabId |-> 1]

Rank(S, x) == Cardinality({y \in S : y < x})

RECURSIVE TabsBefore(_, _)
TabsBefore(groups, i) ==
  IF i <= 1 THEN 0 ELSE Len(groups[i - 1].tabs) + TabsBefore(groups, i - 1)

\* the browser restores the windows, groups and tabs it had, under new ids
RestoredSession(session, w) ==
  [windows |-> {w + Rank(session.windows, x) : x \in session.windows},
   groups |-> [i \in DOMAIN session.groups |->
                 [session.groups[i] EXCEPT
                    !.id = i,
                    !.windowId = w + Rank(session.windows, @),
                    !.tabs = [j \in DOMAIN @ |->
                                [@[j] EXCEPT !.id = TabsBefore(session.groups, i) + j]]]],
   nextWindowId |-> w + Cardinality(session.windows),
   nextGroupId |-> Len(session.groups) + 1,
   nextTabId |-> TabsBefore(session.groups, Len(session.groups) + 1) + 1]

RestartedSessions(session) ==
  {NewSession(w) : w \in WindowIds}
    \cup (IF session.windows = {} THEN {}
          ELSE {RestoredSession(session, w) : w \in WindowIds})

Init ==
  /\ storage = [windows |-> <<>>]
  /\ chrome \in {NewSession(w) : w \in WindowIds}
  /\ lastOp = [op |-> "none"]
  /\ steps = 0
  /\ mergeIn = [chromeTabs |-> <<>>, storedTabs |-> <<>>]
  /\ mergeOut = <<>>
  /\ QueueIdle

CanStep == steps < MaxSteps

Step(op) ==
  /\ steps' = steps + 1
  /\ lastOp' = op
  /\ UNCHANGED mergeVars
  /\ UNCHANGED queueVars

\* onInstalled, onStartup and the "Refresh Side Panel" menu
ReconcileStep ==
  \E out \in {reconcileAllWindows(storage, chrome)} :
    /\ storage' = out.data
    /\ UNCHANGED chrome
    /\ Step([op |-> "reconcile", threw |-> out.threw, before |-> storage])

\* the browser is restarted: a new session with new ids, then onStartup
RestartStep ==
  \E session \in RestartedSessions(chrome) :
    \E out \in {reconcileAllWindows(storage, session)} :
      /\ chrome' = session
      /\ storage' = out.data
      /\ Step([op |-> "restart", threw |-> out.threw, before |-> storage])

\* a window opens: windows.onFocusChanged writes nothing
NewWindowStep ==
  /\ chrome.nextWindowId \in WindowIds
  /\ chrome' = createWindow(chrome)
  /\ UNCHANGED storage
  /\ Step([op |-> "newWindow", windowId |-> chrome.nextWindowId])

tabRemovedUnits(tabs, windowId) ==
  [i \in DOMAIN tabs |-> tabRemovedUnit(tabs[i].id, windowId)]

RECURSIVE groupsRemovedUnits(_)
groupsRemovedUnits(gone) ==
  IF gone = <<>> THEN <<>>
  ELSE tabRemovedUnits(Head(gone).tabs, Head(gone).windowId)
         \o <<groupRemovedUnit(Head(gone).id)>> \o groupsRemovedUnits(Tail(gone))

\* a window closes with its tabs and groups:
\* tabs.onRemoved, tabGroups.onRemoved, windows.onRemoved
CloseWindowStep ==
  \E w \in chrome.windows :
    /\ chrome' = [chrome EXCEPT !.windows = @ \ {w},
                                !.groups = SelectSeq(@, LAMBDA g : g.windowId # w)]
    /\ storage' = runUnits(storage, chrome',
                           groupsRemovedUnits(groupsInWindow(chrome, w))
                             \o <<windowRemovedUnit(w)>>)
    /\ Step([op |-> "closeWindow", windowId |-> w])

\* tabs of a window are grouped: tabGroups.onCreated
CreateGroupStep ==
  \E w \in chrome.windows, title \in GroupTitles \ {""} :
    /\ chrome.nextGroupId \in GroupIds
    /\ chrome.nextTabId \in TabIds
    /\ chrome' = createGroupOfTabs(chrome, w, <<"a">>, title, GroupColor)
    /\ storage' = runUnits(storage, chrome', <<syncUnit(chrome.nextGroupId, w, TRUE)>>)
    /\ Step([op |-> "createGroup", groupId |-> chrome.nextGroupId, windowId |-> w])

\* a group is renamed: tabGroups.onUpdated
UpdateGroupStep ==
  \E i \in DOMAIN chrome.groups, title \in GroupTitles :
    /\ title # chrome.groups[i].title
    /\ chrome' = [chrome EXCEPT !.groups[i].title = title]
    /\ storage' = runUnits(storage, chrome',
                           <<syncUnit(chrome.groups[i].id, chrome.groups[i].windowId, FALSE)>>)
    /\ Step([op |-> "updateGroup", groupId |-> chrome.groups[i].id])

\* a group is closed with its tabs: tabs.onRemoved, tabGroups.onRemoved
RemoveGroupStep ==
  \E i \in DOMAIN chrome.groups :
    /\ chrome' = [chrome EXCEPT !.groups = RemoveAt(@, i)]
    /\ storage' = runUnits(storage, chrome', groupsRemovedUnits(<<chrome.groups[i]>>))
    /\ Step([op |-> "removeGroup", groupId |-> chrome.groups[i].id])

\* a group is dragged to another window: tabs.onDetached, tabs.onAttached
MoveGroupStep ==
  \E i \in DOMAIN chrome.groups, w \in chrome.windows :
    /\ w # chrome.groups[i].windowId
    /\ chrome' = [chrome EXCEPT !.groups[i].windowId = w]
    /\ storage' = runUnits(storage, chrome',
                           <<syncUnit(chrome.groups[i].id, NullId, TRUE),
                             syncUnit(chrome.groups[i].id, w, TRUE)>>)
    /\ Step([op |-> "moveGroup", groupId |-> chrome.groups[i].id,
             from |-> chrome.groups[i].windowId, to |-> w,
             storedUnder |-> {s[1] : s \in SlotsWithId(storage, chrome.groups[i].id)}])

\* a tab opens in a group: tabs.onCreated
AddTabStep ==
  \E i \in DOMAIN chrome.groups, url \in Urls :
    /\ Len(chrome.groups[i].tabs) < MaxTabsPerGroup
    /\ chrome.nextTabId \in TabIds
    /\ chrome' = [chrome EXCEPT
                    !.groups[i].tabs = Append(@, [id |-> chrome.nextTabId,
                                                  title |-> pageTitle(url), url |-> url]),
                    !.nextTabId = @ + 1]
    /\ storage' = runUnits(storage, chrome',
                           <<syncUnit(chrome.groups[i].id, chrome.groups[i].windowId, FALSE)>>)
    /\ Step([op |-> "addTab", groupId |-> chrome.groups[i].id])

\* a tab of a group closes, the group stays: tabs.onRemoved
RemoveTabStep ==
  \E i \in DOMAIN chrome.groups :
    \E j \in DOMAIN chrome.groups[i].tabs :
      /\ Len(chrome.groups[i].tabs) > 1
      /\ chrome' = [chrome EXCEPT !.groups[i].tabs = RemoveAt(@, j)]
      /\ storage' = runUnits(storage, chrome',
                             <<tabRemovedUnit(chrome.groups[i].tabs[j].id,
                                              chrome.groups[i].windowId)>>)
      /\ Step([op |-> "removeTab", groupId |-> chrome.groups[i].id])

\* ------------------------------------------------- commands of the panel
\* The panel sends the records it shows: those of the document.
deleteGroup(data, windowKey, groupKey) ==
  IF windowKey \in DOMAIN data.windows /\ groupKey \in DOMAIN data.windows[windowKey].groups
    THEN [data EXCEPT !.windows[windowKey].groups = DelKey(@, groupKey)]
    ELSE data

deleteWindow(data, windowKey) ==
  IF windowKey \in DOMAIN data.windows
    THEN [windows |-> DelKey(data.windows, windowKey)]
    ELSE data

DeleteGroupStep ==
  \E s \in GroupSlots(storage) :
    /\ storage' = deleteGroup(storage, s[1], s[2])
    /\ UNCHANGED chrome
    /\ Step([op |-> "deleteGroup", windowKey |-> s[1], groupKey |-> s[2]])

DeleteWindowStep ==
  \E w \in DOMAIN storage.windows :
    /\ storage' = deleteWindow(storage, w)
    /\ UNCHANGED chrome
    /\ Step([op |-> "deleteWindow", windowKey |-> w])

LiveTabIds(session) == {t.id : t \in UNION {Range(g.tabs) : g \in Range(session.groups)}}

\* the ids a resurrection may use up are ids of the session
IdsLeft ==
  /\ chrome.nextWindowId \in WindowIds
  /\ chrome.nextGroupId \in GroupIds
  /\ chrome.nextTabId + MaxTabsPerGroup \in TabIds

\* the events of the group a command has created (or created and dropped)
createdUnits(before, after) ==
  IF after.nextGroupId = before.nextGroupId THEN <<>>
  ELSE IF IsLiveGroup(after, before.nextGroupId)
    THEN <<syncUnit(before.nextGroupId,
                    LiveGroup(after, before.nextGroupId).windowId, TRUE)>>
    ELSE <<groupRemovedUnit(before.nextGroupId)>>

\* tabs.onCreated of the tab a command has added to a group
tabCreatedUnits(before, out) ==
  IF out.threw \/ ~IsLiveTab(out.session, out.id) \/ IsLiveTab(before, out.id) THEN <<>>
  ELSE <<syncUnit((CHOOSE g \in Range(out.session.groups) :
                     \E t \in Range(g.tabs) : t.id = out.id).id,
                  (CHOOSE g \in Range(out.session.groups) :
                     \E t \in Range(g.tabs) : t.id = out.id).windowId,
                  FALSE)>>

OpenWindowStep ==
  /\ IdsLeft
  /\ \E w \in DOMAIN storage.windows :
       \E out \in {focusOrOpenWindow(storage, chrome, storage.windows[w], TRUE)} :
         /\ chrome' = out.session
         /\ storage' = runUnits(out.data, out.session, createdUnits(chrome, out.session))
         /\ Step([op |-> "openWindow", windowKey |-> w, id |-> out.id])

OpenGroupStep ==
  /\ IdsLeft
  /\ \E s \in GroupSlots(storage) :
       \E out \in {focusOrOpenGroup(storage, chrome, storage.windows[s[1]].groups[s[2]],
                                    storage.windows[s[1]])} :
         /\ chrome' = out.session
         /\ storage' = runUnits(out.data, out.session, createdUnits(chrome, out.session))
         /\ Step([op |-> "openGroup", group |-> storage.windows[s[1]].groups[s[2]],
                  windowKey |-> s[1], groupKey |-> s[2],
                  id |-> out.id, before |-> storage, written |-> out.data,
                  resurrected |-> ~IsLiveGroup(chrome, storage.windows[s[1]].groups[s[2]].id),
                  liveBefore |-> LiveTabIds(chrome)])

OpenTabStep ==
  /\ IdsLeft
  /\ \E s \in GroupSlots(storage) :
       \E i \in DOMAIN storage.windows[s[1]].groups[s[2]].tabs :
         \E out \in {focusOrOpenTab(storage, chrome,
                                    storage.windows[s[1]].groups[s[2]].tabs[i],
                                    storage.windows[s[1]].groups[s[2]],
                                    storage.windows[s[1]])} :
           /\ chrome' = out.session
           /\ storage' = runUnits(out.data, out.session,
                                  createdUnits(chrome, out.session)
                                    \o tabCreatedUnits(chrome, out))
           /\ Step([op |-> "openTab", id |-> out.id, threw |-> out.threw])

Reconcile == CanStep /\ ReconcileStep
Restart == CanStep /\ RestartStep
NewWindow == CanStep /\ NewWindowStep
CloseWindow == CanStep /\ CloseWindowStep
CreateGroup == CanStep /\ CreateGroupStep
UpdateGroup == CanStep /\ UpdateGroupStep
RemoveGroup == CanStep /\ RemoveGroupStep
MoveGroup == CanStep /\ MoveGroupStep
AddTab == CanStep /\ AddTabStep
RemoveTab == CanStep /\ RemoveTabStep
DeleteGroup == CanStep /\ DeleteGroupStep
DeleteWindow == CanStep /\ DeleteWindowStep
OpenWindow == CanStep /\ OpenWindowStep
OpenGroup == CanStep /\ OpenGroupStep
OpenTab == CanStep /\ OpenTabStep

vars == <<storage, chrome, lastOp, steps, mergeIn, mergeOut, eventQueue,
         processingQueue, running, resumed, finished>>

SpecMerge == MergeInit /\ [][MergeStep]_vars

Next ==
  \/ Reconcile
  \/ Restart
  \/ NewWindow
  \/ CloseWindow
  \/ CreateGroup
  \/ UpdateGroup
  \/ RemoveGroup
  \/ MoveGroup
  \/ AddTab
  \/ RemoveTab
  \/ DeleteGroup
  \/ DeleteWindow
  \/ OpenWindow
  \/ OpenGroup
  \/ OpenTab

Spec == Init /\ [][Next]_vars

\* ------------------------------------------------ claims on the reconciler
FullReconciled == lastOp.op \in {"reconcile", "restart"}

SyncOps == {"reconcile", "restart", "createGroup", "updateGroup", "moveGroup",
            "addTab", "removeTab"}

GroupCount(data) == Cardinality(GroupSlots(data))

\* C1: a second full reconcile of an unchanged session leaves the document
\* exactly as the first one left it, whatever document the first started from.
C1_ReconcileIdempotent ==
  reconcileAllWindows(reconcileAllWindows(storage, chrome).data, chrome).data
    = reconcileAllWindows(storage, chrome).data

\* C4: once a live group that had a GroupRecord under another window has been
\* synced with window W2, the document holds exactly one GroupRecord of that
\* group, and it is under W2.
C4_MoveSingleOwner ==
  (lastOp.op = "moveGroup" /\ lastOp.storedUnder \ {lastOp.to} # {}) =>
    /\ Cardinality(SlotsWithId(storage, lastOp.groupId)) = 1
    /\ \A s \in SlotsWithId(storage, lastOp.groupId) : s[1] = lastOp.to

\* the group titles a stored window shares with the live window
SharedTitles(session, windowId, storedWindow) ==
  Cardinality(({g.title : g \in Range(groupsInWindow(session, windowId))} \ {""})
                \cap {storedWindow.groups[k].title : k \in DOMAIN storedWindow.groups})

\* the keys of the stored windows bound to no live window
Candidates(data, session) ==
  {k \in DOMAIN data.windows : data.windows[k].id \notin session.windows}

\* the first found of the candidates that share the most titles
BestCandidate(data, session, windowId) ==
  CHOOSE k \in Candidates(data, session) :
    \A j \in Candidates(data, session) :
      \/ SharedTitles(session, windowId, data.windows[j])
           < SharedTitles(session, windowId, data.windows[k])
      \/ /\ SharedTitles(session, windowId, data.windows[j])
              = SharedTitles(session, windowId, data.windows[k])
         /\ k <= j

C5Case(data, session, windowId) ==
  /\ windowId \notin DOMAIN data.windows
  /\ \E k \in Candidates(data, session) :
       SharedTitles(session, windowId, data.windows[k]) > 0

TitlesByKey(storedWindow) ==
  [k \in DOMAIN storedWindow.groups |-> storedWindow.groups[k].title]

C5Bound(out, best, windowId) ==
  /\ ~out.threw
  /\ windowId \in DOMAIN out.data.windows
  /\ out.data.windows[windowId].id = windowId
  /\ TitlesByKey(out.data.windows[windowId]) = TitlesByKey(best)
  /\ DOMAIN out.data.windows[windowId].groups # {}

\* the document the n-th window sync of a full reconcile starts from
SyncedBefore(n) ==
  syncWindows(lastOp.before, chrome, SubSeq(SortedSeq(chrome.windows), 1, n - 1))

\* C5: a window sync of a live window that has no WindowRecord under its id,
\* while some stored window bound to no live window shares a group title with
\* it, binds the live window to the first found of the stored windows sharing
\* the most titles, and creates no empty WindowRecord.
C5_WindowMatch ==
  FullReconciled =>
    \A n \in 1..Cardinality(chrome.windows) :
      (~SyncedBefore(n).threw
         /\ C5Case(SyncedBefore(n).data, chrome, SortedSeq(chrome.windows)[n])) =>
        C5Bound(syncWindow(SyncedBefore(n).data, chrome, SortedSeq(chrome.windows)[n]),
                SyncedBefore(n).data.windows[
                  BestCandidate(SyncedBefore(n).data, chrome, SortedSeq(chrome.windows)[n])],
                SortedSeq(chrome.windows)[n])

\* the titles the GroupRecords of the document carry
StoredTitles(data) ==
  {data.windows[s[1]].groups[s[2]].title : s \in GroupSlots(data)}

\* C6: no session event, full reconcile or resurrection command makes a
\* GroupRecord disappear or turns it into the record of another group: short
\* of deleteGroup, deleteWindow and the renaming of a live group, every title
\* a GroupRecord carried is still carried by a GroupRecord, and the document
\* has no fewer GroupRecords than it had.
C6_NoImplicitRemoval ==
  [][lastOp'.op \notin {"deleteGroup", "deleteWindow", "updateGroup"} =>
       /\ StoredTitles(storage) \subseteq StoredTitles(storage')
       /\ GroupCount(storage') >= GroupCount(storage)]_vars

WindowIdsMatchKeys(data) ==
  \A s \in GroupSlots(data) : data.windows[s[1]].groups[s[2]].windowId = s[1]

\* C7: a window sync, single-group sync or full reconcile that completes on a
\* document whose GroupRecords carry the key of their WindowRecord as windowId
\* leaves a document of which the same is true.
C7_WindowIdIsKey ==
  [][(lastOp'.op \in SyncOps /\ WindowIdsMatchKeys(storage)) =>
       WindowIdsMatchKeys(storage')]_vars

\* the live tabs the command has created
ResurrectedTabs == LiveTabIds(chrome) \ lastOp.liveBefore

OpenUrls(tabs) ==
  [i \in DOMAIN SelectSeq(tabs, LAMBDA t : ~t.closed) |->
     SelectSeq(tabs, LAMBDA t : ~t.closed)[i].url]

UrlsOf(tabs) == [i \in DOMAIN tabs |-> tabs[i].url]

\* the TabRecord lists of the GroupRecords of a document
TabLists(data) == {data.windows[s[1]].groups[s[2]].tabs : s \in GroupSlots(data)}

\* the TabRecord lists the command has written
ReboundTabLists == TabLists(lastOp.written) \ TabLists(lastOp.before)

\* the same TabRecords, the closed ones still closed and without a live id
ClosedStayClosed(tabs, rebound) ==
  /\ UrlsOf(rebound) = UrlsOf(tabs)
  /\ \A i \in DOMAIN tabs : tabs[i].closed => (rebound[i].closed /\ rebound[i].id = NoId)

\* C8: resurrecting a GroupRecord creates one live tab per non-closed
\* TabRecord, in their order, and no other; the TabRecords that were closed
\* are closed and without a live id in the record the command writes, and
\* the command writes the TabRecords of no other record.
C8_ResurrectOpenTabsOnly ==
  (lastOp.op = "openGroup" /\ lastOp.resurrected) =>
    /\ Cardinality(ResurrectedTabs) = Len(OpenUrls(lastOp.group.tabs))
    /\ OpenUrls(lastOp.group.tabs) # <<>> =>
         /\ IsLiveGroup(chrome, lastOp.id)
         /\ UrlsOf(LiveGroup(chrome, lastOp.id).tabs) = OpenUrls(lastOp.group.tabs)
         /\ {t.id : t \in Range(LiveGroup(chrome, lastOp.id).tabs)} = ResurrectedTabs
    /\ \A rebound \in ReboundTabLists : ClosedStayClosed(lastOp.group.tabs, rebound)

\* a closed group holding one open and one closed TabRecord was resurrected
\* and its record rebound: one live tab was created
C8_Witness ==
  /\ lastOp.op = "openGroup" /\ lastOp.resurrected
  /\ \E i \in DOMAIN lastOp.group.tabs : lastOp.group.tabs[i].closed
  /\ \E i \in DOMAIN lastOp.group.tabs : ~lastOp.group.tabs[i].closed
  /\ ReboundTabLists # {}
  /\ Cardinality(ResurrectedTabs) = 1

\* C9: after a full reconcile no WindowRecord is left without GroupRecords,
\* and a WindowRecord that is gone had none left: its GroupRecords are found
\* under their keys in other WindowRecords.
C9_PruneIffEmpty ==
  (FullReconciled /\ ~lastOp.threw) =>
    /\ \A w \in DOMAIN storage.windows : DOMAIN storage.windows[w].groups # {}
    /\ \A w \in DOMAIN lastOp.before.windows \ DOMAIN storage.windows :
         \A g \in DOMAIN lastOp.before.windows[w].groups :
           \E s \in GroupSlots(storage) : s[2] = g

\* --------------------------------------------------------- the event queue
\* queue() and processEventQueue() at the grain of their awaits.  A unit of
\* work is an async function: it runs up to a suspending call (chrome.* or
\* storage), is resumed when the call returns, and ends by completing or by
\* throwing.  Listeners call queue() between any two of these steps.
MaxUnits == 3
MaxAwaits == 2

\* every unit enqueued so far is waiting, running or finished
enqueuedUnits == Len(finished) + Cardinality(running) + Len(eventQueue)

\* (a processEventQueue that does not look at the flag)
mayProcessAlways(processing) == TRUE

\* (a queue() that pushes and starts no processEventQueue)
mayProcessNever(processing) == FALSE

\* `if (processingQueue) return;`
mayProcess(processing) == ~processing

\* the queue runs on its own: the document and the session stay as they are
QueueOnly == UNCHANGED <<storage, chrome, lastOp, steps, mergeIn, mergeOut>>

QueueInit ==
  /\ QueueIdle
  /\ storage = [windows |-> <<>>]
  /\ chrome = [windows |-> {}, groups |-> <<>>]
  /\ lastOp = [op |-> "queue"]
  /\ steps = 0
  /\ mergeIn = [chromeTabs |-> <<>>, storedTabs |-> <<>>]
  /\ mergeOut = <<>>

\* (a loop that takes the unit pushed last: `eventQueue.pop()`)
startLast(queued) ==
  /\ eventQueue' = SubSeq(queued, 1, Len(queued) - 1)
  /\ running' = running \cup {queued[Len(queued)]}

\* `const eventFn = eventQueue.shift()!; ... await eventFn()`: the unit at
\* the head starts and runs up to its first suspending call
startNext(queued) ==
  /\ eventQueue' = Tail(queued)
  /\ running' = running \cup {Head(queued)}

\* queue(eventFn): the push, then processEventQueue() up to its first await
Enqueue ==
  \E awaits \in 1..MaxAwaits, throws \in BOOLEAN :
    /\ enqueuedUnits < MaxUnits
    /\ IF mayProcess(processingQueue)
         THEN /\ processingQueue' = TRUE
              /\ startNext(Append(eventQueue, [id |-> enqueuedUnits + 1,
                                               left |-> awaits, throws |-> throws]))
         ELSE /\ eventQueue' = Append(eventQueue, [id |-> enqueuedUnits + 1,
                                                   left |-> awaits, throws |-> throws])
              /\ UNCHANGED <<processingQueue, running>>
    /\ UNCHANGED <<resumed, finished>>
    /\ QueueOnly

\* a suspending call of a running unit returns and the unit goes on to its
\* next suspending call
UnitResumes ==
  \E unit \in running :
    /\ unit.left > 1
    /\ running' = (running \ {unit}) \cup {[unit EXCEPT !.left = @ - 1]}
    /\ UNCHANGED <<eventQueue, processingQueue, resumed, finished>>
    /\ QueueOnly

\* (a loop without the try/catch: the rejection of `await eventFn()` ends
\* processEventQueue)
loopGoesOnUnlessThrown(threw) == ~threw

\* `try { await eventFn(); } catch (e) { console.error(...) }`: the loop goes
\* on to its test whether the unit completed or threw
loopGoesOn(threw) == TRUE

\* the last suspending call of a running unit returns; the unit completes
\* or throws, and `await eventFn()` returns or lands in the catch
UnitFinishes ==
  \E unit \in running :
    /\ unit.left = 1
    /\ running' = running \ {unit}
    /\ finished' = Append(finished, [id |-> unit.id, threw |-> unit.throws])
    /\ resumed' = IF loopGoesOn(unit.throws) THEN resumed + 1 ELSE resumed
    /\ UNCHANGED <<eventQueue, processingQueue>>
    /\ QueueOnly

\* `while (eventQueue.length > 0)` holds: the next unit is taken
ProcessNext ==
  /\ resumed > 0
  /\ eventQueue # <<>>
  /\ startNext(eventQueue)
  /\ resumed' = resumed - 1
  /\ UNCHANGED <<processingQueue, finished>>
  /\ QueueOnly

\* the queue is empty: `processingQueue = false;`
ProcessDone ==
  /\ resumed > 0
  /\ eventQueue = <<>>
  /\ processingQueue' = FALSE
  /\ resumed' = resumed - 1
  /\ UNCHANGED <<eventQueue, running, finished>>
  /\ QueueOnly

QueueNext ==
  \/ Enqueue
  \/ UnitResumes
  \/ UnitFinishes
  \/ ProcessNext
  \/ ProcessDone

SpecQueue == QueueInit /\ [][QueueNext]_vars

\* C10: at most one unit has started and not finished, whatever the
\* interleaving of queue() calls: a unit enqueued while another is suspended
\* waits in eventQueue, and the one loop that takes units is either awaiting
\* the running unit or about to take the next.
C10_OneUnitAtATime ==
  /\ Cardinality(running) + resumed <= 1
  /\ (running # {} \/ resumed > 0) => processingQueue

\* a unit was enqueued while another was suspended, after a unit that threw
C10_Witness ==
  /\ \E unit \in running : unit.left = 1 /\ unit.id = 2
  /\ Len(eventQueue) = 1
  /\ Len(finished) = 1 /\ finished[1].threw

\* the event loop resumes every continuation whose call has returned, and a
\* chrome.* or storage call returns or rejects: no step of a unit or of the
\* loop stays enabled for ever without being taken
QueueFairness ==
  /\ WF_vars(UnitResumes)
  /\ WF_vars(UnitFinishes)
  /\ WF_vars(ProcessNext)
  /\ WF_vars(ProcessDone)

SpecQueueFair == SpecQueue /\ QueueFairness

\* the ids of the units, in the order of the queue() calls
finishedIds == [i \in DOMAIN finished |-> finished[i].id]
startedIds == Range(finishedIds) \cup {unit.id : unit \in running}

\* C11: units start in the order of their queue() calls, and a unit starts
\* only when every unit enqueued before it has finished: the units finish in
\* enqueue order, the running unit is the one after the last finished, and
\* the waiting ones follow in enqueue order.
C11_FifoOrder ==
  /\ \A i \in DOMAIN finished : finished[i].id = i
  /\ \A unit \in running : unit.id = Len(finished) + 1
  /\ \A i \in DOMAIN eventQueue :
       eventQueue[i].id = Len(finished) + Cardinality(running) + i

\* the third unit runs after the first two, which were both waiting or
\* running when it was enqueued, have finished
C11_Witness ==
  /\ Len(finished) = 2
  /\ \E unit \in running : unit.id = 3 /\ unit.left = MaxAwaits

\* C12: a unit that throws is caught by the loop and is not retried: no unit
\* starts again once it has started, every unit waiting in the queue is run
\* to its end whatever the units before it did, and processingQueue comes
\* back to false.
C12_FailedUnitDoesNotBlock ==
  /\ [](/\ \A i, j \in DOMAIN finished : finished[i].id = finished[j].id => i = j
        /\ \A unit \in running : unit.id \notin Range(finishedIds)
        /\ \A i \in DOMAIN eventQueue : eventQueue[i].id \notin startedIds)
  /\ \A id \in 1..MaxUnits :
       (\E i \in DOMAIN eventQueue : eventQueue[i].id = id)
         ~> (id \in Range(finishedIds))
  /\ processingQueue ~> ~processingQueue

\* a unit threw, the unit enqueued behind it ran to its end and did not
\* throw, and the loop has ended
C12_Witness ==
  /\ Len(finished) >= 2
  /\ finished[1].threw /\ ~finished[2].threw
  /\ ~processingQueue
  /\ eventQueue = <<>>

\* ------------------------------------------- reads and writes of the document
\* The paths that write the document, at the grain of getStorage() and
\* setStorage().  `running` holds the async functions that have started and
\* not ended, each with its local `data`; the units of the queue are started
\* one at a time, the listener of the "Refresh Side Panel" menu calls
\* reconcileAllWindows() itself.
MaxRaceSteps == 3

\* window 1 with the groups "A" and "B", and the document reconciled with it
RaceSession ==
  createGroupOfTabs(createGroupOfTabs(NewSession(1), 1, <<"a">>, "A", GroupColor),
                    1, <<"b">>, "B", GroupColor)

RaceInit ==
  /\ chrome = RaceSession
  /\ storage = reconcileAllWindows([windows |-> <<>>], RaceSession).data
  /\ lastOp = [op |-> "none"]
  /\ steps = 0
  /\ mergeIn = [chromeTabs |-> <<>>, storedTabs |-> <<>>]
  /\ mergeOut = <<>>
  /\ QueueIdle

\* an async function that has not reached its getStorage() yet
started(type, unit) ==
  [type |-> type, unit |-> unit, pc |-> "start", data |-> [windows |-> <<>>],
   session |-> chrome]

RaceStep(op) ==
  /\ steps' = steps + 1
  /\ lastOp' = op
  /\ UNCHANGED <<mergeIn, mergeOut, resumed, finished>>

\* queue(eventFn): the unit starts at once when the loop is not running
raceQueue(fn) ==
  IF mayProcess(processingQueue)
    THEN /\ processingQueue' = TRUE
         /\ startNext(Append(eventQueue, fn))
    ELSE /\ eventQueue' = Append(eventQueue, fn)
         /\ UNCHANGED <<processingQueue, running>>

\* the loop after a unit: the next unit starts, or the flag is cleared
unitEnds(fn) ==
  IF eventQueue # <<>>
    THEN /\ eventQueue' = Tail(eventQueue)
         /\ running' = (running \ {fn}) \cup {Head(eventQueue)}
         /\ UNCHANGED processingQueue
    ELSE /\ running' = running \ {fn}
         /\ processingQueue' = FALSE
         /\ UNCHANGED eventQueue

\* setStorage(data) of a path that read `fn.data`
writes(fn, data) ==
  /\ storage' = data
  /\ lastOp' = [op |-> "write", type |-> fn.type, read |-> fn.data,
                overwritten |-> storage]
  /\ UNCHANGED <<chrome, steps, mergeIn, mergeOut, resumed, finished>>

\* contextMenus.onClicked, 'resync-all': reconcileAllWindows() is called in
\* the listener, not through queue()
RefreshClicked ==
  /\ steps < MaxRaceSteps
  /\ \A fn \in running : fn.type # "refresh"
  /\ running' = running \cup {started("refresh", [type |-> "refresh"])}
  /\ UNCHANGED <<storage, chrome, eventQueue, processingQueue>>
  /\ RaceStep([op |-> "refresh"])

\* the window and group syncs of the refresh run to their end, then
\* `const data = await getStorage();` of the sweep
RefreshReads ==
  \E fn \in running :
    /\ fn.type = "refresh" /\ fn.pc = "start"
    /\ \E out \in {Then(syncWindows(storage, chrome, SortedSeq(chrome.windows)),
                        LAMBDA d : syncTabGroups(d, chrome, chrome.groups))} :
         /\ storage' = out.data
         /\ running' = (running \ {fn})
                         \cup (IF out.threw THEN {}
                               ELSE {[fn EXCEPT !.pc = "read", !.data = out.data]})
    /\ lastOp' = [op |-> "read", type |-> fn.type]
    /\ UNCHANGED <<chrome, steps, eventQueue, processingQueue,
                   mergeIn, mergeOut, resumed, finished>>

\* after the chrome.windows.get / chrome.tabGroups.get calls of the sweep:
\* `await setStorage(data);`
RefreshWrites ==
  \E fn \in running :
    /\ fn.type = "refresh" /\ fn.pc = "read"
    /\ running' = running \ {fn}
    /\ writes(fn, sweepAndPrune(fn.data, chrome))
    /\ UNCHANGED <<eventQueue, processingQueue>>

\* the panel sends deleteGroup for a record it shows
DeleteGroupQueued ==
  \E s \in GroupSlots(storage) :
    /\ steps < MaxRaceSteps
    /\ raceQueue(started("deleteGroup", [windowKey |-> s[1], groupKey |-> s[2]]))
    /\ UNCHANGED <<storage, chrome>>
    /\ RaceStep([op |-> "deleteGroup"])

\* a live group is renamed: tabGroups.onUpdated queues its sync
GroupRenamed ==
  \E i \in DOMAIN chrome.groups, title \in GroupTitles \ {""} :
    /\ steps < MaxRaceSteps
    /\ title # chrome.groups[i].title
    /\ chrome' = [chrome EXCEPT !.groups[i].title = title]
    /\ raceQueue(started("syncTabGroup",
                         syncUnit(chrome.groups[i].id, chrome.groups[i].windowId, FALSE)))
    /\ UNCHANGED storage
    /\ RaceStep([op |-> "updateGroup"])

\* deleteGroup: `const data = await getStorage(); delete ...; await
\* setStorage(data);` with no suspending call between the read and the write
DeleteGroupRuns ==
  \E fn \in running :
    /\ fn.type = "deleteGroup"
    /\ unitEnds(fn)
    /\ writes([fn EXCEPT !.data = storage],
              deleteGroup(storage, fn.unit.windowKey, fn.unit.groupKey))

\* syncTabGroup: chrome.tabGroups.get, chrome.tabs.query, then
\* `const data = await getStorage();`
SyncReads ==
  \E fn \in running :
    /\ fn.type = "syncTabGroup" /\ fn.pc = "start"
    /\ running' = (running \ {fn})
                    \cup {[fn EXCEPT !.pc = "read", !.data = storage, !.session = chrome]}
    /\ lastOp' = [op |-> "read", type |-> fn.type]
    /\ UNCHANGED <<storage, chrome, steps, eventQueue, processingQueue,
                   mergeIn, mergeOut, resumed, finished>>

\* syncTabGroup after chrome.tabGroups.query: the group as it was got
\* before the read is stored, `await setStorage(data);`
SyncWrites ==
  \E fn \in running :
    /\ fn.type = "syncTabGroup" /\ fn.pc = "read"
    /\ unitEnds(fn)
    /\ writes(fn, runUnit(fn.data, fn.session, fn.unit).data)

RaceNext ==
  \/ RefreshClicked
  \/ RefreshReads
  \/ RefreshWrites
  \/ DeleteGroupQueued
  \/ GroupRenamed
  \/ DeleteGroupRuns
  \/ SyncReads
  \/ SyncWrites

SpecRace == RaceInit /\ [][RaceNext]_vars

\* C13: no path writes the document over a write that another path made
\* after the writer's own read: what a setStorage() replaces is the document
\* its caller got from getStorage().
C13_NoLostUpdate ==
  lastOp.op = "write" => lastOp.overwritten = lastOp.read

\* ---------------------------------------------- the document after a restart
\* Two groups were created in the first session and the browser was
\* restarted: the states that Spec reaches by CreateGroup, CreateGroup,
\* Restart, from which MaxStepsAfter further steps are taken.
MaxStepsAfter == 3

RestartedInit ==
  /\ \E w \in WindowIds, titles \in (GroupTitles \ {""}) \X (GroupTitles \ {""}) :
       \E one \in {createGroupOfTabs(NewSession(w), w, <<"a">>, titles[1], GroupColor)} :
         \E two \in {createGroupOfTabs(one, w, <<"a">>, titles[2], GroupColor)} :
           \E before \in {runUnits(runUnits([windows |-> <<>>], one,
                                             <<syncUnit(1, w, TRUE)>>),
                                    two, <<syncUnit(2, w, TRUE)>>)} :
             \E session \in RestartedSessions(two) :
               \E out \in {reconcileAllWindows(before, session)} :
                 /\ chrome = session
                 /\ storage = out.data
                 /\ lastOp = [op |-> "restart", threw |-> out.threw, before |-> before]
  /\ steps = MaxSteps - MaxStepsAfter
  /\ mergeIn = [chromeTabs |-> <<>>, storedTabs |-> <<>>]
  /\ mergeOut = <<>>
  /\ QueueIdle

SpecRestarted == RestartedInit /\ [][Next]_vars

\* ------------------------------------------------ claims on the event handlers
\* the TabRecords of the record that findStoredGroupById gives for a live id
TabRecordsOf(data, groupId) ==
  IF findStoredGroupById(data, groupId).found
    THEN Range(GroupAt(data, findStoredGroupById(data, groupId)).tabs)
    ELSE {}

\* the step that has just been taken is `op`
Took(op) == steps' = steps + 1 /\ lastOp'.op = op

\* C14: a tab of a live group closes and the group stays: the TabRecord that
\* had the tab's id is no longer open under that id, and the group's record
\* holds its URL as a closed entry with id -1, unless a tab that is still
\* open in the group has that URL.
C14_RemovedTabKept ==
  [][\A i \in DOMAIN chrome.groups :
       \A r \in TabRecordsOf(storage, chrome.groups[i].id) :
         (/\ Took("removeTab")
          /\ lastOp'.groupId = chrome.groups[i].id
          /\ ~r.closed
          /\ \E t \in Range(chrome.groups[i].tabs) :
               t.id = r.id /\ t \notin Range(chrome'.groups[i].tabs))
         => \/ \E t \in Range(chrome'.groups[i].tabs) : t.url = r.url
            \/ /\ \A kept \in TabRecordsOf(storage', chrome.groups[i].id) :
                    kept.id # r.id
               /\ \E kept \in TabRecordsOf(storage', chrome.groups[i].id) :
                    kept.url = r.url /\ kept.closed /\ kept.id = NoId
  ]_vars

RecordAt(data, s) == data.windows[s[1]].groups[s[2]]

\* the document with the same windows and the same slots
SameSlots(before, after) ==
  /\ DOMAIN after.windows = DOMAIN before.windows
  /\ GroupSlots(after) = GroupSlots(before)
  /\ \A w \in DOMAIN before.windows :
       [after.windows[w] EXCEPT !.groups = <<>>] = [before.windows[w] EXCEPT !.groups = <<>>]

\* C15: a live group is removed: every record stays, the record with the
\* group's id is closed and otherwise as it was, and no other record changes.
C15_GroupRemovedMarksClosed ==
  [][Took("removeGroup") =>
       /\ SameSlots(storage, storage')
       /\ \A s \in GroupSlots(storage) :
            RecordAt(storage', s) =
              IF RecordAt(storage, s).id = lastOp'.groupId
                THEN [RecordAt(storage, s) EXCEPT !.closed = TRUE]
                ELSE RecordAt(storage, s)
  ]_vars

\* the WindowRecord under `windowId` and its GroupRecords stay and are closed,
\* the other WindowRecords are as they were
ClosedInPlace(before, after, windowId) ==
  /\ DOMAIN after.windows = DOMAIN before.windows
  /\ \A w \in DOMAIN before.windows :
       IF w = windowId
         THEN /\ after.windows[w].closed
              /\ DOMAIN after.windows[w].groups = DOMAIN before.windows[w].groups
              /\ \A g \in DOMAIN after.windows[w].groups :
                   after.windows[w].groups[g] =
                     [before.windows[w].groups[g] EXCEPT !.closed = TRUE]
         ELSE after.windows[w] = before.windows[w]

\* C16: whatever document the program has reached and whatever window is
\* removed, the windows.onRemoved unit closes the WindowRecord stored under
\* that id and the GroupRecords in it, keeps them all, and leaves the other
\* WindowRecords as they were.
C16_WindowRemovedMarksClosed ==
  \A w \in WindowIds : ClosedInPlace(storage, onWindowRemoved(storage, w).data, w)

\* a window with an open group was closed while another WindowRecord was
\* open: its record is closed with its group, the other is still open
C16_Witness ==
  /\ lastOp.op = "closeWindow"
  /\ lastOp.windowId \in DOMAIN storage.windows
  /\ storage.windows[lastOp.windowId].closed
  /\ \E g \in DOMAIN storage.windows[lastOp.windowId].groups :
       storage.windows[lastOp.windowId].groups[g].closed
  /\ \E w \in DOMAIN storage.windows :
       /\ ~storage.windows[w].closed
       /\ \E g \in DOMAIN storage.windows[w].groups : ~storage.windows[w].groups[g].closed

SlotsWithTitle(data, title) ==
  {s \in GroupSlots(data) : RecordAt(data, s).title = title}

\* C17: a group is created whose id no record has and whose title no record
\* of its window's WindowRecord has: the records titled like it under the
\* other WindowRecords are left as they were, and a record is inserted for
\* the group under the key of its id.
C17_TitleBindingInWindowOnly ==
  [][\A g \in Range(chrome'.groups) :
       (/\ Took("createGroup")
        /\ g.id = lastOp'.groupId
        /\ g.windowId \in DOMAIN storage.windows
        /\ SlotsWithId(storage, g.id) = {}
        /\ \A s \in SlotsWithTitle(storage, g.title) : s[1] # g.windowId)
       => /\ \A w \in DOMAIN storage.windows \ {g.windowId} :
               w \in DOMAIN storage'.windows /\ storage'.windows[w] = storage.windows[w]
          /\ DOMAIN storage'.windows[g.windowId].groups =
               DOMAIN storage.windows[g.windowId].groups \cup {g.id}
  ]_vars

\* the URLs a record's tabs hold, open or closed
HistoryUrls(tabs) == {t.url : t \in Range(tabs)}

\* the open records with the id of a live group
OpenSlotsWithId(data, groupId) ==
  {s \in SlotsWithId(data, groupId) : ~RecordAt(data, s).closed}

\* C18: a closed group is reopened and the events of the new group have been
\* handled: one open GroupRecord has the id of the new live group, it is the
\* record that was reopened, with its title and the URLs of its tabs, and no
\* GroupRecord has been added to the document.
C18_ResurrectedOnce ==
  (lastOp.op = "openGroup" /\ lastOp.resurrected /\ IsLiveGroup(chrome, lastOp.id)) =>
    /\ Cardinality(OpenSlotsWithId(storage, lastOp.id)) = 1
    /\ \A s \in OpenSlotsWithId(storage, lastOp.id) :
         /\ RecordAt(storage, s).title = lastOp.group.title
         /\ HistoryUrls(RecordAt(storage, s).tabs) = HistoryUrls(lastOp.group.tabs)
    /\ Cardinality(GroupSlots(storage)) <= Cardinality(GroupSlots(lastOp.before))

\* the live windows that window sync binds to a WindowRecord stored under
\* another key
MatchedWindows(data, session) ==
  {L \in session.windows :
     /\ L \notin DOMAIN data.windows
     /\ findStoredWindowByGroups(data, session, L).found}

Rekeyed(data, session, L, K, out) ==
  /\ ~out.threw
  /\ L \in DOMAIN out.data.windows
  /\ ~out.data.windows[L].closed
  /\ K \notin DOMAIN out.data.windows
  /\ Cardinality(DOMAIN out.data.windows) = Cardinality(DOMAIN data.windows)

\* C19: when window sync matches the WindowRecord stored under key K to a
\* live window L, the record ends under key L, open, no WindowRecord is left
\* under key K, and the document has as many WindowRecords as before.
C19_MatchedWindowRekeyed ==
  lastOp.op = "restart" =>
    \A L \in MatchedWindows(lastOp.before, chrome) :
      Rekeyed(lastOp.before, chrome, L,
              findStoredWindowByGroups(lastOp.before, chrome, L).window.key,
              syncWindow(lastOp.before, chrome, L))

\* the window that the events of the step make window sync look at: the
\* window a group was created in or moved to, when no WindowRecord is stored
\* under its id
SyncedWindow(L) ==
  /\ L \notin DOMAIN storage.windows
  /\ \/ Took("createGroup") /\ lastOp'.windowId = L
     \/ Took("moveGroup") /\ lastOp'.to = L

BoundToLive(data, session) ==
  {k \in DOMAIN data.windows : data.windows[k].id \in session.windows}

\* C20: window sync does not bind a live window to a WindowRecord whose id
\* is the id of a live window: the match, when there is one, is a
\* WindowRecord that is bound to no live window.
C20_NoMatchAmongLive ==
  [][\A L \in chrome'.windows :
       (SyncedWindow(L) /\ findStoredWindowByGroups(storage, chrome', L).found)
         => findStoredWindowByGroups(storage, chrome', L).window.window.id
              \notin chrome'.windows]_vars

\* a titled group recorded under a live window has been moved to a window
\* that had no WindowRecord: window sync found no candidate, the window has
\* a WindowRecord of its own and the record of the group is under it
C20_Witness ==
  /\ lastOp.op = "moveGroup" /\ steps = 3
  /\ lastOp.storedUnder = {lastOp.from}
  /\ {lastOp.from, lastOp.to} \subseteq chrome.windows
  /\ {lastOp.from, lastOp.to} \subseteq BoundToLive(storage, chrome)
  /\ LiveGroup(chrome, lastOp.groupId).title # ""
  /\ SlotsWithId(storage, lastOp.groupId) = {<<lastOp.to, lastOp.groupId>>}
  /\ DOMAIN storage.windows[lastOp.from].groups = {}

\* ------------------------------------------------------------ window sync
\* the document after syncWindow created an entry for window L
FreshWindow(data, out, L) ==
  /\ ~out.threw
  /\ DOMAIN out.data.windows = DOMAIN data.windows \cup {L}
  /\ out.data.windows[L] = [id |-> L, closed |-> FALSE, groups |-> <<>>]
  /\ \A k \in DOMAIN data.windows : out.data.windows[k] = data.windows[k]

\* C21: when no candidate WindowRecord shares a group title with the live
\* window (the window may have no titled group), window sync adds an open
\* WindowRecord without groups under the live id and leaves every other
\* WindowRecord as it was.
C21_NoMatchCreatesWindow ==
  [][\A L \in chrome'.windows :
       (/\ SyncedWindow(L) \/ (Took("restart") /\ L \notin DOMAIN storage.windows)
        /\ ~findStoredWindowByGroups(storage, chrome', L).found)
         => FreshWindow(storage, syncWindow(storage, chrome', L), L)]_vars

\* a titled group was created in a window that had no WindowRecord while a
\* WindowRecord held a group with another title: both windows have a
\* WindowRecord, each with its own group
C21_Witness ==
  /\ lastOp.op = "createGroup" /\ steps = 3
  /\ Cardinality(DOMAIN storage.windows) = 2
  /\ \A k \in DOMAIN storage.windows :
       /\ ~storage.windows[k].closed /\ k \in chrome.windows
       /\ Cardinality(DOMAIN storage.windows[k].groups) = 1
  /\ \A s \in GroupSlots(storage), t \in GroupSlots(storage) :
       /\ RecordAt(storage, s).title # ""
       /\ s # t => RecordAt(storage, s).title # RecordAt(storage, t).title

\* --------------------------------------------------- second pass of a merge
LiveIds == {c.id : c \in Range(mergeIn.chromeTabs)}

\* the prior records the claim says are emitted as closed records
Unmatched == SelectSeq(mergeIn.storedTabs, LAMBDA t : t.closed \/ t.id \notin LiveIds)

Cleared(t) == [t EXCEPT !.id = NoId, !.closed = TRUE]

\* C22: in the tab merge the second pass emits, cleared of its id and closed,
\* each prior TabRecord that was closed or whose id is not the id of a live
\* tab, and no other; a prior open record whose id is the id of a live tab is
\* replaced by the open record of that tab, and every closed record of the
\* result comes from an emitted one.
C22_ClosedEmittedIff ==
  MergeDone =>
    /\ closedFromStored(mergeIn.chromeTabs, mergeIn.storedTabs)
         = [i \in DOMAIN Unmatched |-> Cleared(Unmatched[i])]
    /\ \A t \in Range(mergeIn.storedTabs) :
         (~t.closed /\ t.id \in LiveIds) =>
           \E i \in DOMAIN mergeIn.chromeTabs :
             /\ mergeIn.chromeTabs[i].id = t.id
             /\ MergeResult[i] = mapTabsToStored(mergeIn.chromeTabs)[i]
    /\ \A r \in Range(MergeResult) :
         r.closed => \E t \in Range(Unmatched) : r = Cleared(t)

\* a merge of a prior list with an open record of a live tab, an open record
\* of a tab that is gone and a closed record, that kept closed records
C22_Witness ==
  /\ MergeDone
  /\ \E t \in Range(mergeIn.storedTabs) : ~t.closed /\ t.id \in LiveIds
  /\ \E t \in Range(mergeIn.storedTabs) : ~t.closed /\ t.id \notin LiveIds
  /\ \E t \in Range(mergeIn.storedTabs) : t.closed
  /\ Cardinality({i \in DOMAIN MergeResult : MergeResult[i].closed}) = 2

\* ------------------------------------------------------- single-group sync
\* C23: single-group sync with windowId null, for a live group that has a
\* GroupRecord, leaves no WindowRecord holding a record of that group.
C23_DetachStripsRecord ==
  \A g \in Range(chrome.groups) :
    SlotsWithId(storage, g.id) # {} =>
      SlotsWithId(syncTabGroup(storage, chrome, g.id, NullId, TRUE).data, g.id) = {}

\* the group ids that name no live group
GoneGroupIds == {id \in GroupIds : ~IsLiveGroup(chrome, id)}

\* C24: single-group sync for a group id that names no live group leaves
\* the document as it is and reaches no setStorage, whatever window id and
\* updatePositions it is called with.
C24_GoneGroupNoOp ==
  \A id \in GoneGroupIds, w \in WindowIds \cup {NullId}, updatePositions \in BOOLEAN :
    /\ syncTabGroup(storage, chrome, id, w, updatePositions) = Done(storage)
    /\ syncTabGroupRun(storage, chrome, id, w).writes = 0

\* a group was removed and its GroupRecord is in the document, in a window
\* that is still live: a late tab event of the group finds it gone
C24_Witness ==
  /\ lastOp.op = "removeGroup"
  /\ lastOp.groupId \in GoneGroupIds
  /\ \E s \in SlotsWithId(storage, lastOp.groupId) :
       s[1] \in chrome.windows /\ RecordAt(storage, s).closed

\* the calls with a live group and a window that has no WindowRecord
RetryCalls ==
  {c \in (GroupIds \ GoneGroupIds) \X chrome.windows : c[2] \notin DOMAIN storage.windows}

\* C25: single-group sync ends after at most one retry: with the
\* WindowRecord of windowId missing it runs window sync, the retry finds
\* the WindowRecord and stores the group under it; a window sync that throws
\* ends the call without a retry.
C25_RetriedAtMostOnce ==
  /\ \A id \in GroupIds, w \in WindowIds \cup {NullId} :
       syncTabGroupRun(storage, chrome, id, w).calls <= 2
  /\ \A c \in RetryCalls :
       IF syncWindow(storage, chrome, c[2]).threw
         THEN /\ syncTabGroupRun(storage, chrome, c[1], c[2]).calls = 1
              /\ syncTabGroup(storage, chrome, c[1], c[2], TRUE).threw
         ELSE /\ syncTabGroupRun(storage, chrome, c[1], c[2]).calls = 2
              /\ c[2] \in DOMAIN syncWindow(storage, chrome, c[2]).data.windows
              /\ ~syncTabGroup(storage, chrome, c[1], c[2], TRUE).threw
              /\ \E s \in SlotsWithId(syncTabGroup(storage, chrome, c[1], c[2], TRUE).data, c[1]) :
                   s[1] = c[2]

\* a window has opened and has no WindowRecord yet, a live group is recorded
\* under another window: its sync into the new window takes one retry
C25_Witness ==
  /\ lastOp.op = "newWindow"
  /\ \E c \in RetryCalls :
       /\ c[2] = lastOp.windowId
       /\ SlotsWithId(storage, c[1]) # {}
       /\ syncTabGroupRun(storage, chrome, c[1], c[2]) = [calls |-> 2, writes |-> 2]

\* every GroupRecord of window w that has the id of a live group of the
\* window has the index of that group among the live groups of the window
PositionsMatch(data, session, w) ==
  \A k \in DOMAIN data.windows[w].groups, i \in DOMAIN groupsInWindow(session, w) :
    data.windows[w].groups[k].id = groupsInWindow(session, w)[i].id
      => data.windows[w].groups[k].position = i - 1

\* the GroupRecords of window w other than those of group id are where they
\* were, with the position they had
SiblingsKeep(before, after, w, id) ==
  \A k \in DOMAIN after.windows[w].groups :
    after.windows[w].groups[k].id # id =>
      /\ k \in DOMAIN before.windows[w].groups
      /\ after.windows[w].groups[k].position = before.windows[w].groups[k].position

\* C26: after a single-group sync with updatePositions (a group created in a
\* window or moved to it) every GroupRecord of the window that has the id of
\* a live group of the window has that group's index as position; after a
\* sync without updatePositions (a group renamed, a tab added) the synced
\* record has its group's index and the other records of the window keep
\* their positions.  (A sync that throws writes nothing.)
C26_Positions ==
  [][/\ \A w \in chrome'.windows :
          (/\ \/ Took("createGroup") /\ lastOp'.windowId = w
              \/ Took("moveGroup") /\ lastOp'.to = w
           /\ ~syncTabGroup(storage, chrome', lastOp'.groupId, w, TRUE).threw)
            => w \in DOMAIN storage'.windows /\ PositionsMatch(storage', chrome', w)
     /\ \A g \in Range(chrome'.groups) :
          ((Took("updateGroup") \/ Took("addTab")) /\ lastOp'.groupId = g.id
             /\ g.windowId \in DOMAIN storage.windows)
            => /\ \A s \in SlotsWithId(storage', g.id) :
                    s[1] = g.windowId =>
                      RecordAt(storage', s).position + 1 \in
                        {i \in DOMAIN groupsInWindow(chrome', g.windowId) :
                           groupsInWindow(chrome', g.windowId)[i].id = g.id}
               /\ SiblingsKeep(storage, storage', g.windowId, g.id)]_vars

\* a group was moved into a window in front of a group of that window: the
\* record of the moved group is at position 0 and its sibling, that was
\* there, is now at position 1
C26_Witness ==
  /\ lastOp.op = "moveGroup"
  /\ lastOp.to \in DOMAIN storage.windows
  /\ \E s \in SlotsWithId(storage, lastOp.groupId) :
       s[1] = lastOp.to /\ RecordAt(storage, s).position = 0
  /\ \E k \in DOMAIN storage.windows[lastOp.to].groups :
       /\ storage.windows[lastOp.to].groups[k].id # lastOp.groupId
       /\ IsLiveGroup(chrome, storage.windows[lastOp.to].groups[k].id)
       /\ ~storage.windows[lastOp.to].groups[k].closed
       /\ storage.windows[lastOp.to].groups[k].position = 1

\* ----------------------------------------------------------- full reconcile
\* a full reconcile has run to its end
Reconciled == lastOp.op \in {"reconcile", "restart"} /\ ~lastOp.threw

\* C27: at the end of a full reconcile the WindowRecord of every live window
\* that is in the document is marked open, and so is every GroupRecord that
\* has the id of a live group and is under the WindowRecord of the group's
\* window: the sweep has closed nothing that the sync steps bound to a live
\* window or group.
C27_SyncedStayOpen ==
  Reconciled =>
    /\ \A L \in chrome.windows :
         L \in DOMAIN storage.windows => ~storage.windows[L].closed
    /\ \A g \in Range(chrome.groups) :
         \A s \in SlotsWithId(storage, g.id) :
           s[1] = g.windowId => ~RecordAt(storage, s).closed

\* a full reconcile that marked a GroupRecord closed and kept the record of
\* a live group, under the WindowRecord of its live window, open
C27_Witness ==
  /\ Reconciled
  /\ \E g \in Range(chrome.groups) :
       \E s \in SlotsWithId(storage, g.id) :
         s[1] = g.windowId /\ ~storage.windows[s[1]].closed
  /\ \E s \in GroupSlots(storage) \cap GroupSlots(lastOp.before) :
       RecordAt(storage, s).closed /\ ~RecordAt(lastOp.before, s).closed

\* C28: at the end of a full reconcile a WindowRecord whose id names no live
\* window is marked closed with all its GroupRecords, and a GroupRecord
\* whose id names no live group is marked closed.
C28_NothingOpenButLive ==
  Reconciled =>
    \A k \in DOMAIN storage.windows :
      /\ storage.windows[k].id \notin chrome.windows =>
           /\ storage.windows[k].closed
           /\ \A g \in DOMAIN storage.windows[k].groups :
                storage.windows[k].groups[g].closed
      /\ \A g \in DOMAIN storage.windows[k].groups :
           ~IsLiveGroup(chrome, storage.windows[k].groups[g].id)
             => storage.windows[k].groups[g].closed

\* ------------------------------------------------------------ resurrection
TitlesIn(w) == {w.groups[k].title : k \in DOMAIN w.groups}

\* C29: openWindow for a WindowRecord whose id names no live window creates
\* a live window; afterwards the record is under the id of the new window,
\* with that id, marked open, holding groups of the record only, each with
\* windowId the new id, and no WindowRecord is left under the old key.
C29_WindowReboundToNewId ==
  [][\A w \in DOMAIN storage.windows :
       (Took("openWindow") /\ lastOp'.windowKey = w
          /\ storage.windows[w].id \notin chrome.windows)
         => /\ lastOp'.id = chrome.nextWindowId
            /\ lastOp'.id \in chrome'.windows \ chrome.windows
            /\ lastOp'.id \in DOMAIN storage'.windows
            /\ storage'.windows[lastOp'.id].id = lastOp'.id
            /\ ~storage'.windows[lastOp'.id].closed
            /\ TitlesIn(storage'.windows[lastOp'.id]) \subseteq TitlesIn(storage.windows[w])
            /\ \A k \in DOMAIN storage'.windows[lastOp'.id].groups :
                 storage'.windows[lastOp'.id].groups[k].windowId = lastOp'.id
            /\ w # lastOp'.id => w \notin DOMAIN storage'.windows]_vars

\* a closed WindowRecord was opened: a window was created, the record has
\* left its old key and is under the id of the new window with a group
C29_Witness ==
  /\ lastOp.op = "openWindow"
  /\ lastOp.id = chrome.nextWindowId - 1
  /\ lastOp.windowKey # lastOp.id
  /\ lastOp.windowKey \notin DOMAIN storage.windows
  /\ lastOp.id \in chrome.windows \cap DOMAIN storage.windows
  /\ \E k \in DOMAIN storage.windows[lastOp.id].groups :
       storage.windows[lastOp.id].groups[k].windowId = lastOp.id

\* C30: openWindow, openGroup or openTab for a record of the document whose
\* id names a live window, group or tab returns that id and leaves the
\* session and the document as they are.
C30_LiveIsFocusedOnly ==
  /\ \A w \in DOMAIN storage.windows :
       storage.windows[w].id \in chrome.windows =>
         focusOrOpenWindow(storage, chrome, storage.windows[w], TRUE)
           = Opened(storage, chrome, storage.windows[w].id)
  /\ \A s \in GroupSlots(storage) :
       /\ IsLiveGroup(chrome, RecordAt(storage, s).id) =>
            focusOrOpenGroup(storage, chrome, RecordAt(storage, s), storage.windows[s[1]])
              = Opened(storage, chrome, RecordAt(storage, s).id)
       /\ \A t \in Range(RecordAt(storage, s).tabs) :
            IsLiveTab(chrome, t.id) =>
              focusOrOpenTab(storage, chrome, t, RecordAt(storage, s), storage.windows[s[1]])
                = Opened(storage, chrome, t.id)

\* openGroup was sent for the record of a live group in a live window, with
\* a live tab: nothing was created and the document is as it was
C30_Witness ==
  /\ lastOp.op = "openGroup" /\ ~lastOp.resurrected
  /\ lastOp.id = lastOp.group.id
  /\ storage = lastOp.before
  /\ IsLiveGroup(chrome, lastOp.id)
  /\ storage.windows[lastOp.windowKey].id \in chrome.windows
  /\ \E t \in Range(lastOp.group.tabs) : IsLiveTab(chrome, t.id)

\* ------------------------------------------------- resurrection of a group
\* the TabRecords of a resurrected record: the i-th non-closed one carries
\* the id of the i-th tab created, the closed ones are as they were
TabsRebound(tabs, created, rebound) ==
  /\ Len(rebound) = Len(tabs)
  /\ \A i \in DOMAIN tabs :
       IF tabs[i].closed
         THEN rebound[i] = tabs[i]
         ELSE /\ Cardinality({j \in 1..i : ~tabs[j].closed}) \in DOMAIN created
              /\ created[Cardinality({j \in 1..i : ~tabs[j].closed})].url = tabs[i].url
              /\ rebound[i] =
                   [tabs[i] EXCEPT
                      !.id = created[Cardinality({j \in 1..i : ~tabs[j].closed})].id]

\* the record that openGroup has written for the group it created in window w
ResurrectedIn(w) ==
  /\ w \in DOMAIN lastOp.written.windows
  /\ lastOp.id \in DOMAIN lastOp.written.windows[w].groups
  /\ lastOp.written.windows[w].groups[lastOp.id].id = lastOp.id
  /\ lastOp.written.windows[w].groups[lastOp.id].windowId = w
  /\ lastOp.written.windows[w].groups[lastOp.id].title = lastOp.group.title
  /\ TabsRebound(lastOp.group.tabs,
                 IF IsLiveGroup(chrome, lastOp.id)
                   THEN LiveGroup(chrome, lastOp.id).tabs ELSE <<>>,
                 lastOp.written.windows[w].groups[lastOp.id].tabs)

\* C31: the document that openGroup writes after it resurrected a closed
\* GroupRecord holds the record under the WindowRecord of the window the
\* group was created in, under the new group id, with that id and window
\* id; its i-th non-closed TabRecord has the id of the i-th tab created, of
\* the same url, and its closed TabRecords are as they were.
C31_ResurrectedRebound ==
  (lastOp.op = "openGroup" /\ lastOp.resurrected) =>
    \E w \in chrome.windows :
      /\ IsLiveGroup(chrome, lastOp.id) => LiveGroup(chrome, lastOp.id).windowId = w
      /\ ResurrectedIn(w)

\* the GroupRecord that openGroup has just resurrected had no TabRecord to open
ResurrectedEmpty ==
  /\ lastOp.op = "openGroup"
  /\ lastOp.resurrected
  /\ \A i \in DOMAIN lastOp.group.tabs : lastOp.group.tabs[i].closed

\* C32: resurrecting a GroupRecord without a non-closed TabRecord uses up
\* exactly one tab id and one group id (the throwaway tab and the group made
\* of it) and leaves the live groups and their tabs as they were: no live
\* tab without a TabRecord stays behind.
C32_EmptyGroupLeavesNoTab ==
  [][(steps' = steps + 1 /\ ResurrectedEmpty') =>
       /\ chrome'.nextTabId = chrome.nextTabId + 1
       /\ chrome'.nextGroupId = chrome.nextGroupId + 1
       /\ lastOp'.id = chrome.nextGroupId
       /\ chrome'.groups = chrome.groups
       /\ LiveTabIds(chrome') = lastOp'.liveBefore]_vars

C32_Witness ==
  /\ ResurrectedEmpty
  /\ lastOp.group.tabs # <<>>
  /\ lastOp.liveBefore # {}
  /\ LiveTabIds(chrome) = lastOp.liveBefore

\* ------------------------------------- the document after an emptied sync
\* A group was created and synced; it closed while a sync of it was between
\* `chrome.tabGroups.get` and `chrome.tabs.query`, so the sync merged its
\* TabRecords with no live tab, and tabGroups.onRemoved followed.
EmptiedInit ==
  /\ \E w \in WindowIds, title \in GroupTitles \ {""}, url \in Urls :
       \E one \in {createGroupOfTabs(NewSession(w), w, <<url>>, title, GroupColor)} :
         \E gone \in {[one EXCEPT !.groups = <<>>]} :
           \E before \in {runUnits([windows |-> <<>>], one, <<syncUnit(1, w, TRUE)>>)} :
             /\ chrome = gone
             /\ storage = runUnits(runUnits(before, [one EXCEPT !.groups[1].tabs = <<>>],
                                            <<syncUnit(1, w, FALSE)>>),
                                   gone, <<groupRemovedUnit(1)>>)
             /\ lastOp = [op |-> "removeGroup", groupId |-> 1]
  /\ steps = MaxSteps - MaxStepsAfter - 1
  /\ mergeIn = [chromeTabs |-> <<>>, storedTabs |-> <<>>]
  /\ mergeOut = <<>>
  /\ QueueIdle

SpecEmptied == EmptiedInit /\ [][Next]_vars

\* ------------------------------------------------------ openTab from the panel
\* the live tabs of a group that show a url (`chrome.tabs.query({groupId, url})`)
ExistingTabs(session, groupId, url) ==
  IF IsLiveGroup(session, groupId)
    THEN SelectSeq(LiveGroup(session, groupId).tabs, LAMBDA t : t.url = url)
    ELSE <<>>

\* some record of the group holds an open TabRecord of that url with that id
BoundToTab(data, groupId, url, tabId) ==
  \E s \in SlotsWithId(data, groupId) :
    \E k \in DOMAIN data.windows[s[1]].groups[s[2]].tabs :
      /\ data.windows[s[1]].groups[s[2]].tabs[k].url = url
      /\ data.windows[s[1]].groups[s[2]].tabs[k].id = tabId
      /\ ~data.windows[s[1]].groups[s[2]].tabs[k].closed

\* openTab of the i-th TabRecord of the record in slot s finds a live tab of
\* that url in the live group of the record
OpensExisting(s, i) ==
  /\ ~IsLiveTab(chrome, storage.windows[s[1]].groups[s[2]].tabs[i].id)
  /\ ExistingTabs(chrome, storage.windows[s[1]].groups[s[2]].id,
                  storage.windows[s[1]].groups[s[2]].tabs[i].url) # <<>>

OpenTabOf(s, i) ==
  focusOrOpenTab(storage, chrome, storage.windows[s[1]].groups[s[2]].tabs[i],
                 storage.windows[s[1]].groups[s[2]], storage.windows[s[1]])

\* C33: openTab for a TabRecord that is not live, whose group is live and
\* shows a live tab of the same url, creates no tab, returns that tab, and
\* the document it leaves holds an open TabRecord of that url with that
\* tab's id in a record of the group.
C33_ExistingTabRebound ==
  \A s \in GroupSlots(storage) :
    \A i \in DOMAIN storage.windows[s[1]].groups[s[2]].tabs :
      OpensExisting(s, i) =>
        /\ OpenTabOf(s, i).session = chrome
        /\ OpenTabOf(s, i).id =
             ExistingTabs(chrome, storage.windows[s[1]].groups[s[2]].id,
                          storage.windows[s[1]].groups[s[2]].tabs[i].url)[1].id
        /\ BoundToTab(OpenTabOf(s, i).data, storage.windows[s[1]].groups[s[2]].id,
                      storage.windows[s[1]].groups[s[2]].tabs[i].url,
                      OpenTabOf(s, i).id)

\* the group that openTab has ensured for the record in slot s
EnsuredGroup(s) ==
  focusOrOpenGroup(storage, chrome, storage.windows[s[1]].groups[s[2]],
                   storage.windows[s[1]])

\* openTab of the i-th TabRecord of the record in slot s, a closed one,
\* finds no live tab of that url in the group
OpensClosed(s, i) ==
  /\ storage.windows[s[1]].groups[s[2]].tabs[i].closed
  /\ ExistingTabs(EnsuredGroup(s).session, EnsuredGroup(s).id,
                  storage.windows[s[1]].groups[s[2]].tabs[i].url) = <<>>

\* some record of the group holds one TabRecord of the url: an open one with that id
OneTabRecord(data, groupId, url, tabId) ==
  \E r \in SlotsWithId(data, groupId) :
    \E k \in DOMAIN data.windows[r[1]].groups[r[2]].tabs :
      /\ data.windows[r[1]].groups[r[2]].tabs[k].id = tabId
      /\ ~data.windows[r[1]].groups[r[2]].tabs[k].closed
      /\ \A j \in DOMAIN data.windows[r[1]].groups[r[2]].tabs :
           data.windows[r[1]].groups[r[2]].tabs[j].url = url <=> j = k

\* the document once openTab and the events of what it created have run
OpenTabDocument(s, i) ==
  runUnits(OpenTabOf(s, i).data, OpenTabOf(s, i).session,
           createdUnits(chrome, OpenTabOf(s, i).session)
             \o tabCreatedUnits(chrome, OpenTabOf(s, i)))

\* C34: openTab for a closed TabRecord whose url no live tab of the group
\* shows creates one tab, in the group, and afterwards the document holds,
\* in a record of the group, exactly one TabRecord of that url: open, with
\* the id of the new tab.
C34_ClosedTabReopened ==
  \A s \in GroupSlots(storage) :
    \A i \in DOMAIN storage.windows[s[1]].groups[s[2]].tabs :
      OpensClosed(s, i) =>
        /\ ~OpenTabOf(s, i).threw
        /\ OpenTabOf(s, i).id = EnsuredGroup(s).session.nextTabId
        /\ LiveTabIds(OpenTabOf(s, i).session)
             = LiveTabIds(EnsuredGroup(s).session) \cup {OpenTabOf(s, i).id}
        /\ ExistingTabs(OpenTabOf(s, i).session, EnsuredGroup(s).id,
                        storage.windows[s[1]].groups[s[2]].tabs[i].url)
             = <<newTabOf(EnsuredGroup(s).session,
                          storage.windows[s[1]].groups[s[2]].tabs[i].url)>>
        /\ OneTabRecord(OpenTabDocument(s, i), EnsuredGroup(s).id,
                        storage.windows[s[1]].groups[s[2]].tabs[i].url,
                        OpenTabOf(s, i).id)

\* --------------------------------------------------- deleteTab from the panel
\* `msg.tabId` when the panel sends null: no TabRecord carries it
NullTabId == -2

\* runtime.onMessage, deleteTab: the TabRecords the handler leaves in the group
tabsAfterDelete(tabs, tabId, tabUrl) ==
  IF tabId # NullTabId
    THEN SelectSeq(tabs, LAMBDA t : t.id # tabId)
    ELSE IF tabUrl # "" /\ \E i \in DOMAIN tabs : tabs[i].id = NullTabId /\ tabs[i].url = tabUrl
      THEN RemoveAt(tabs, Min({i \in DOMAIN tabs :
                                 tabs[i].id = NullTabId /\ tabs[i].url = tabUrl}))
      ELSE tabs

\* The history row of GroupItemView sends `onDeleteTab(e, window, group, t.id)`
\* for a closed TabRecord t of the list that mergeStoredTabs has written.
DeleteTabStep ==
  /\ lastOp.op = "merge"
  /\ mergeOut # <<>>
  /\ \E i \in DOMAIN mergeOut[1] :
       /\ mergeOut[1][i].closed
       /\ mergeOut' = <<tabsAfterDelete(mergeOut[1], mergeOut[1][i].id, "")>>
       /\ lastOp' = [op |-> "deleteTab", index |-> i, before |-> mergeOut[1]]
  /\ UNCHANGED <<mergeIn, storage, chrome, steps>>
  /\ UNCHANGED queueVars

DeleteTabNext ==
  \/ MergeStep
  \/ DeleteTabStep

SpecDeleteTab == MergeInit /\ [][DeleteTabNext]_vars

\* C35: deleteTab for one closed TabRecord of a group leaves the group's
\* TabRecords as they were but for that one record.
C35_DeleteTabRemovesOne ==
  lastOp.op = "deleteTab" => mergeOut[1] = RemoveAt(lastOp.before, lastOp.index)

\* ------------------------------------------------- one record per live group
\* the slots of the records with that id that are not marked closed
OpenSlotsOf(data, groupId) ==
  {s \in SlotsWithId(data, groupId) : ~data.windows[s[1]].groups[s[2]].closed}

\* C36: after a full reconcile each live group has exactly one GroupRecord
\* with its id that is not marked closed, and that record is under the
\* WindowRecord of the group's window.
C36_OwnRecordPerLiveGroup ==
  Reconciled =>
    \A i \in DOMAIN chrome.groups :
      /\ Cardinality(OpenSlotsOf(storage, chrome.groups[i].id)) = 1
      /\ \A s \in OpenSlotsOf(storage, chrome.groups[i].id) :
           s[1] = chrome.groups[i].windowId

\* ------------------------------------------------ the resurrected record
\* the records of the written document that carry the id of the new group
WrittenSlots == SlotsWithId(lastOp.written, lastOp.id)

\* C37: once openGroup has created a live group for a closed GroupRecord
\* and written the rebinding, the record with the new group's id is not
\* marked closed.
C37_ResurrectedMarkedOpen ==
  (lastOp.op = "openGroup" /\ lastOp.resurrected /\ IsLiveGroup(chrome, lastOp.id)) =>
    /\ WrittenSlots # {}
    /\ \A s \in WrittenSlots : ~lastOp.written.windows[s[1]].groups[s[2]].closed

\* ---------------------------------------------- open records and live ids
\* C38: in every document no two GroupRecords that are not marked closed
\* carry the id of one live group.
C38_OneOpenRecordPerLiveId ==
  \A i \in DOMAIN chrome.groups :
    Cardinality(OpenSlotsOf(storage, chrome.groups[i].id)) <= 1

\* ------------------------------------------------------- no stranded unit
\* the units that wait in the queue
waitingIds == {eventQueue[i].id : i \in DOMAIN eventQueue}

\* a processEventQueue call holds the flag and is awaiting a unit or is back
\* from one and about to test the queue
WorkerDraining ==
  /\ processingQueue
  /\ running # {} \/ resumed > 0

\* C39: whenever a unit waits in the queue a processEventQueue call is
\* draining it, and every unit that waits is started later on, wherever in
\* the course of the worker it was enqueued.
C39_NoUnitStranded ==
  /\ [](eventQueue # <<>> => WorkerDraining)
  /\ \A id \in 1..MaxUnits : (id \in waitingIds) ~> (id \in startedIds)

\* two units wait, enqueued while the worker was busy, and the worker is
\* back from the unit before them with no unit running
C39_Witness ==
  /\ Len(eventQueue) = 2
  /\ running = {}
  /\ resumed = 1
  /\ Len(finished) = 1
====
